---- MODULE Spec2Model ----
(***************************************************************************)
(* A model of the Gmail integration of MCP-Email-Analyzer:                 *)
(*   - GmailRepository (src/gmail/client.py): the query builder, the       *)
(*     TTL cache, the retry decorator around each repository operation,    *)
(*     and the semaphore-bounded batch fetch;                              *)
(*   - GmailMapper (src/gmail/mapper.py): the body extraction and the      *)
(*     attachment records;                                                 *)
(*   - EmailAnalyzerServer (src/server/mcp_server.py): the tool handlers;  *)
(*   - AnalysisResult (src/core), GmailAuthenticator (src/gmail/auth.py)   *)
(*     and GmailRepositoryFactory (src/gmail/factory.py);                  *)
(*   - EmailRepository (src/core/interfaces.py): the operations over a   *)
(*     list of ids, and map_google_api_error (src/gmail/exceptions.py).  *)
(* Optional values are modelled as sequences: None is <<>>, a value v is   *)
(* <<v>>.  Text whose characters matter is a sequence of Unicode code      *)
(* points; text that is only concatenated is a TLA+ string.                *)
(***************************************************************************)
EXTENDS Integers, Sequences, FiniteSets, TLC

VARIABLES
    filters,      \* SearchFilters argument of _build_query
    query,        \* the string _build_query returned (None before the call)
    message,      \* Gmail API message given to map_message_to_email_data
    email,        \* the EmailData it returned (None before the call)
    settings,     \* GmailSettings of the repository: cache_ttl, max_results
    gmail,        \* the Gmail side: status it answers with, and the mailbox
    cache,        \* GmailRepository._cache: entries, least recently used first
    now,          \* the clock the cache reads
    service,      \* GmailRepository._service is set (a service was built)
    hasCreds,     \* GmailAuthenticator.creds is set
    pc,           \* "idle", "attempt" (an attempt is due), "batch", or "done"
                  \* (the call hands its outcome to the caller)
    call,         \* the repository call in progress
    attempt,      \* number of the attempt due or running (tenacity attempt_number)
    answers,      \* HTTP statuses of the Gmail calls of the attempts of this call
    nApi,         \* Gmail API requests executed during this call
    nAuth,        \* authenticator.get_service() calls during this call
    request,      \* the messages.list request of the last attempt, and its match
    tasks,        \* the tasks of _fetch_messages_batch, in list order
    permits,      \* value of the asyncio.Semaphore of the batch
    served,       \* the last cache hit: id and age of the entry served
    outcome,      \* how the call ended: a return value or an exception
    server,       \* EmailAnalyzerServer: the tool call in progress and its answer
    construction, \* the construction of a record or an exception: class,
                  \* arguments, result
    auth,         \* GmailAuthenticator, its token file and the OAuth side
    factory,      \* GmailRepositoryFactory: _instance, _settings and the call log
    caller        \* a program that uses the repository: its position and its log

queryVars == <<filters, query>>
mapperVars == <<message, email>>
repoVars == <<settings, gmail, cache, now, service, hasCreds, pc, call, attempt, answers,
              nApi, nAuth, request, tasks, permits, served, outcome>>
sideVars == <<server, construction, auth, factory, caller>>
vars == <<filters, query, message, email, settings, gmail, cache, now, service, hasCreds,
          pc, call, attempt, answers, nApi, nAuth, request, tasks, permits,
          served, outcome, server, construction, auth, factory, caller>>

None == <<>>
Some(v) == <<v>>
IsNone(o) == o = <<>>
Val(o) == o[1]

-----------------------------------------------------------------------------
(* Bounds of the model *)

\* longest labels list of a SearchFilters input
MaxLabels == 2
\* most parts of a nested multipart part of a payload
MaxParts == 2
\* messages of the mailbox of the repository runs
NumIds == 2
\* last instant of the clock
MaxTime == 2
\* longest message list handed to _fetch_messages_batch on its own
MaxBatch == 11
\* largest limit and offset of a get_emails call
MaxLimit == 2
MaxOffset == 1

-----------------------------------------------------------------------------
(* GmailRepository._build_query *)

\* Python truthiness of an Optional[str]: None and "" are falsy
Truthy(o) == ~IsNone(o) /\ Val(o) /= ""

\* two-digit, zero-padded decimal (%m and %d of strftime)
Pad2(n) == IF n < 10 THEN "0" \o ToString(n) ELSE ToString(n)

\* datetime.strftime("%Y/%m/%d") for years 1000..9999
StrfDate(d) == ToString(d.year) \o "/" \o Pad2(d.month) \o "/" \o Pad2(d.day)

\* str.join: the items separated by sep
RECURSIVE Join(_, _)
Join(parts, sep) ==
    IF parts = <<>> THEN ""
    ELSE IF Len(parts) = 1 THEN parts[1]
    ELSE parts[1] \o sep \o Join(Tail(parts), sep)

\* the for-loop over filters.labels
RECURSIVE LabelParts(_)
LabelParts(labels) ==
    IF labels = <<>> THEN <<>>
    ELSE <<"label:" \o Head(labels)>> \o LabelParts(Tail(labels))

\* AttachmentPart with the truthiness test `if filters.has_attachment:`
AttachmentPartTruthy(f) ==
    IF ~IsNone(f.has_attachment) /\ Val(f.has_attachment)
    THEN <<"has:attachment">>
    ELSE <<>>

\* query_parts after the has_attachment block
AttachmentPart(f) ==
    IF ~IsNone(f.has_attachment)
    THEN IF Val(f.has_attachment) THEN <<"has:attachment">> ELSE <<"-has:attachment">>
    ELSE <<>>

\* query_parts after the is_unread block
UnreadPart(f) ==
    IF ~IsNone(f.is_unread)
    THEN IF Val(f.is_unread) THEN <<"is:unread">> ELSE <<"is:read">>
    ELSE <<>>

\* query_parts, appended to in the order of the if-statements of the method
QueryParts(f) ==
    LET p1 == IF Truthy(f.sender) THEN <<"from:" \o Val(f.sender)>> ELSE <<>>
        p2 == IF Truthy(f.recipient) THEN p1 \o <<"to:" \o Val(f.recipient)>> ELSE p1
        p3 == IF Truthy(f.subject) THEN p2 \o <<"subject:" \o Val(f.subject)>> ELSE p2
        p4 == IF Truthy(f.body_contains) THEN p3 \o <<Val(f.body_contains)>> ELSE p3
        p5 == p4 \o AttachmentPart(f)
        p6 == p5 \o UnreadPart(f)
        p7 == IF ~IsNone(f.date_after)
              THEN p6 \o <<"after:" \o StrfDate(Val(f.date_after))>> ELSE p6
        p8 == IF ~IsNone(f.date_before)
              THEN p7 \o <<"before:" \o StrfDate(Val(f.date_before))>> ELSE p7
    IN  IF f.labels /= <<>> THEN p8 \o LabelParts(f.labels) ELSE p8

BuildQuery(f) == Join(QueryParts(f), " ")

\* SearchFilters values the query builder is applied to
OptStrings(S) == {None} \cup {Some(s) : s \in S}
OptBools == {None, Some(TRUE), Some(FALSE)}
Dates == {[year |-> 2024, month |-> 1, day |-> 5],
          [year |-> 2023, month |-> 11, day |-> 30]}
OptDates == {None} \cup {Some(d) : d \in Dates}
LabelNames == {"INBOX", "work"}
LabelLists == UNION {[1..n -> LabelNames] : n \in 0..MaxLabels}

FilterInputs ==
    [sender : OptStrings({"", "a@x.com"}),
     recipient : OptStrings({"b@y.org"}),
     subject : OptStrings({"meeting"}),
     body_contains : OptStrings({"hello world"}),
     has_attachment : OptBools,
     is_unread : OptBools,
     date_after : OptDates,
     date_before : OptDates,
     labels : LabelLists]

\* no _build_query call is modelled
QueryIdle == filters = None /\ query = None
\* no mapper call is modelled
MapperIdle == message = None /\ email = None
\* no server, record construction, authenticator or factory is modelled
SideIdle ==
    /\ server = None /\ construction = None /\ auth = None /\ factory = None
    /\ caller = None
\* no repository is modelled
RepoIdle ==
    /\ settings = None /\ gmail = None /\ cache = <<>> /\ now = 0
    /\ service = FALSE /\ hasCreds = FALSE /\ pc = "idle" /\ call = None /\ attempt = 0
    /\ answers = <<>> /\ nApi = 0 /\ nAuth = 0 /\ request = None
    /\ tasks = <<>> /\ permits = 0 /\ served = None /\ outcome = None

InitQuery ==
    /\ filters \in FilterInputs
    /\ query = None
    /\ MapperIdle
    /\ RepoIdle
    /\ SideIdle

\* a call _build_query(filters)
BuildQueryCall ==
    /\ IsNone(query)
    /\ query' = Some(BuildQuery(filters))
    /\ UNCHANGED <<filters, mapperVars, repoVars, sideVars>>

NextQuery == BuildQueryCall

SpecQuery == InitQuery /\ [][NextQuery]_vars

\* the text of an Optional[str], "" for None
Txt(o) == IF IsNone(o) THEN "" ELSE Val(o)
\* YYYY/MM/DD of an Optional date, "" for None
DateTxt(o) == IF IsNone(o) THEN "" ELSE StrfDate(Val(o))

\* the eight single tokens of the claim in their fixed order, each with the
\* condition under which its field counts as set
TokenSlots(f) ==
    << [on |-> Truthy(f.sender), tok |-> "from:" \o Txt(f.sender)],
       [on |-> Truthy(f.recipient), tok |-> "to:" \o Txt(f.recipient)],
       [on |-> Truthy(f.subject), tok |-> "subject:" \o Txt(f.subject)],
       [on |-> Truthy(f.body_contains), tok |-> Txt(f.body_contains)],
       [on |-> f.has_attachment /= None,
        tok |-> IF f.has_attachment = Some(FALSE) THEN "-has:attachment"
                ELSE "has:attachment"],
       [on |-> f.is_unread /= None,
        tok |-> IF f.is_unread = Some(FALSE) THEN "is:read" ELSE "is:unread"],
       [on |-> f.date_after /= None, tok |-> "after:" \o DateTxt(f.date_after)],
       [on |-> f.date_before /= None, tok |-> "before:" \o DateTxt(f.date_before)] >>

SlotOn(slot) == slot.on
ExpectedTokens(f) ==
    LET kept == SelectSeq(TokenSlots(f), SlotOn)
    IN  [i \in 1..Len(kept) |-> kept[i].tok]
            \o [i \in 1..Len(f.labels) |-> "label:" \o f.labels[i]]

\* the advanced search of example.py, with a concrete date
AdvancedFilters ==
    [sender |-> None, recipient |-> None, subject |-> Some("meeting"),
     body_contains |-> None, has_attachment |-> Some(FALSE),
     is_unread |-> Some(FALSE),
     date_after |-> Some([year |-> 2024, month |-> 1, day |-> 5]),
     date_before |-> None, labels |-> <<>>]

\* C8: _build_query returns the tokens of the set fields, in the fixed order
\* from, to, subject, body text, (-)has:attachment, is:unread/is:read, after,
\* before, one label: per label, joined by single spaces; a token is present
\* exactly when its field is set (the two booleans: is not None).
C8_QueryTokens ==
    ~IsNone(query) =>
        /\ Val(query) = Join(ExpectedTokens(filters), " ")
        /\ filters = AdvancedFilters =>
               Val(query) = "subject:meeting -has:attachment is:read after:2024/01/05"

\* a query was built from filters with every field set, both booleans False
C8_Witness ==
    /\ ~IsNone(query)
    /\ Truthy(filters.sender) /\ Truthy(filters.recipient)
    /\ Truthy(filters.subject) /\ Truthy(filters.body_contains)
    /\ filters.has_attachment = Some(FALSE) /\ filters.is_unread = Some(FALSE)
    /\ filters.date_after /= None /\ filters.date_before /= None
    /\ Len(filters.labels) = 2
    /\ Val(query) = "from:a@x.com to:b@y.org subject:meeting hello world "
                      \o "-has:attachment is:read after:2024/01/05 "
                      \o "before:2023/11/30 label:work label:INBOX"

-----------------------------------------------------------------------------
(* GmailMapper: body extraction.  A message, a payload and a part are       *)
(* functions from the keys present in the dict to their values; a base64    *)
(* string and the decoded text are sequences of Unicode code points.        *)

\* the characters of the standard base64 alphabet, as code points: A-Z, a-z,
\* 0-9, "+" and "/"
IsB64Char(c) == c \in (65..90) \cup (97..122) \cup (48..57) \cup {43, 47}

\* the six bits a character of the alphabet stands for
B64Value(c) ==
    IF c \in 65..90 THEN c - 65
    ELSE IF c \in 97..122 THEN c - 71
    ELSE IF c \in 48..57 THEN c + 4
    ELSE IF c = 43 THEN 62 ELSE 63

\* urlsafe_b64decode translates "-" to "+" and "_" to "/"
UrlsafeTranslate(c) == IF c = 45 THEN 43 ELSE IF c = 95 THEN 47 ELSE c

\* binascii.a2b_base64 (non-strict), one character at a time: quad is the
\* position in the current group of four, left the bits carried over, pads the
\* number of "=" (61) seen since the last data character, out the bytes so far.
\* The result is [ok |-> FALSE] for "Incorrect padding" and for a lone
\* trailing data character.
RECURSIVE A2bBase64(_, _, _, _, _)
A2bBase64(chars, quad, left, pads, out) ==
    IF chars = <<>>
    THEN IF quad /= 0 THEN [ok |-> FALSE, bytes |-> <<>>]
         ELSE [ok |-> TRUE, bytes |-> out]
    ELSE LET c == Head(chars)
             rest == Tail(chars)
         IN  IF c = 61
             THEN IF quad >= 2 /\ quad + pads + 1 >= 4
                  THEN [ok |-> TRUE, bytes |-> out]
                  ELSE A2bBase64(rest, quad, left,
                                 IF quad >= 2 THEN pads + 1 ELSE pads, out)
             ELSE IF ~IsB64Char(c)
             THEN A2bBase64(rest, quad, left, pads, out)
             ELSE LET v == B64Value(c)
                  IN  CASE quad = 0 -> A2bBase64(rest, 1, v, 0, out)
                        [] quad = 1 ->
                             A2bBase64(rest, 2, v % 16, 0,
                                       Append(out, left * 4 + v \div 16))
                        [] quad = 2 ->
                             A2bBase64(rest, 3, v % 4, 0,
                                       Append(out, left * 16 + v \div 4))
                        [] OTHER ->
                             A2bBase64(rest, 0, 0, 0, Append(out, left * 64 + v))

\* base64.urlsafe_b64decode of a str: the str is encoded as ASCII first, which
\* raises ValueError (ok = FALSE) for a character above 127
UrlsafeB64Decode(data) ==
    IF \E i \in 1..Len(data) : data[i] > 127
    THEN [ok |-> FALSE, bytes |-> <<>>]
    ELSE A2bBase64([i \in 1..Len(data) |-> UrlsafeTranslate(data[i])], 0, 0, 0, <<>>)

IsCont(b) == b >= 128 /\ b <= 191

\* bytes.decode('utf-8'), strict: the code points, or ok = FALSE for a
\* UnicodeDecodeError
RECURSIVE Utf8Decode(_, _)
Utf8Decode(bytes, out) ==
    IF bytes = <<>> THEN [ok |-> TRUE, text |-> out]
    ELSE LET b == bytes[1]
             n == Len(bytes)
             bad == [ok |-> FALSE, text |-> <<>>]
         IN  IF b < 128 THEN Utf8Decode(Tail(bytes), Append(out, b))
             ELSE IF b >= 194 /\ b <= 223
             THEN IF n >= 2 /\ IsCont(bytes[2])
                  THEN Utf8Decode(SubSeq(bytes, 3, n),
                                  Append(out, (b - 192) * 64 + (bytes[2] - 128)))
                  ELSE bad
             ELSE IF b >= 224 /\ b <= 239
             THEN IF /\ n >= 3 /\ IsCont(bytes[2]) /\ IsCont(bytes[3])
                     /\ (b = 224 => bytes[2] >= 160)
                     /\ (b = 237 => bytes[2] <= 159)
                  THEN Utf8Decode(SubSeq(bytes, 4, n),
                                  Append(out, (b - 224) * 4096 + (bytes[2] - 128) * 64
                                              + (bytes[3] - 128)))
                  ELSE bad
             ELSE IF b >= 240 /\ b <= 244
             THEN IF /\ n >= 4 /\ IsCont(bytes[2]) /\ IsCont(bytes[3]) /\ IsCont(bytes[4])
                     /\ (b = 240 => bytes[2] >= 144)
                     /\ (b = 244 => bytes[2] <= 143)
                  THEN Utf8Decode(SubSeq(bytes, 5, n),
                                  Append(out, (b - 240) * 262144 + (bytes[2] - 128) * 4096
                                              + (bytes[3] - 128) * 64 + (bytes[4] - 128)))
                  ELSE bad
             ELSE bad

\* base64.urlsafe_b64decode(body_data).decode('utf-8'); ok = FALSE when either
\* step raises
DecodeBodyData(data) ==
    LET raw == UrlsafeB64Decode(data)
    IN  IF raw.ok THEN Utf8Decode(raw.bytes, <<>>) ELSE [ok |-> FALSE, text |-> <<>>]

NL == 10
TextMimeTypes == {"text/plain", "text/html"}

\* dict.get(key, default)
Get(d, key, default) == IF key \in DOMAIN d THEN d[key] ELSE default
EmptyDict == <<>>

\* the text of a part that has no 'parts' key
LeafBody(part) ==
    IF Get(part, "mimeType", "") \in TextMimeTypes
    THEN LET body_data == Get(Get(part, "body", EmptyDict), "data", <<>>)
         IN  IF body_data /= <<>>
             THEN LET decoded == DecodeBodyData(body_data)
                  IN  IF decoded.ok THEN Append(decoded.text, NL) ELSE <<>>
             ELSE <<>>
    ELSE <<>>

\* _extract_part_body that does not descend into the parts of a part
RECURSIVE ExtractPartBodyFlat(_)
ExtractPartBodyFlat(part) ==
    IF "parts" \in DOMAIN part THEN <<>> ELSE LeafBody(part)

\* GmailMapper._extract_part_body
RECURSIVE ExtractPartBody(_)
RECURSIVE ExtractPartsBody(_)
ExtractPartBody(part) ==
    IF "parts" \in DOMAIN part THEN ExtractPartsBody(part["parts"]) ELSE LeafBody(part)

\* the loop `for nested_part in parts: body += _extract_part_body(nested_part)`
ExtractPartsBody(parts) ==
    IF parts = <<>> THEN <<>>
    ELSE ExtractPartBody(Head(parts)) \o ExtractPartsBody(Tail(parts))

\* the code points for which str.isspace() holds
Whitespace ==
    (9..13) \cup (28..32) \cup {133, 160, 5760} \cup (8192..8202)
        \cup {8232, 8233, 8239, 8287, 12288}

RECURSIVE LStrip(_)
LStrip(t) == IF t /= <<>> /\ Head(t) \in Whitespace THEN LStrip(Tail(t)) ELSE t

RECURSIVE RStrip(_)
RStrip(t) ==
    IF t /= <<>> /\ t[Len(t)] \in Whitespace THEN RStrip(SubSeq(t, 1, Len(t) - 1)) ELSE t

\* str.strip()
Strip(t) == RStrip(LStrip(t))

\* GmailMapper._extract_body
ExtractBody(msg) ==
    LET payload == Get(msg, "payload", EmptyDict)
    IN  Strip(IF "parts" \in DOMAIN payload
              THEN ExtractPartsBody(payload["parts"])
              ELSE ExtractPartBody(payload))

\* base64 strings used as body data
B64_hi == <<97, 71, 107, 61>>            \* "aGk=": "hi"
B64_sp_a_nl == <<73, 71, 69, 75>>        \* "IGEK": " a\n"
B64_e_acute == <<119, 54, 107, 61>>      \* "w6k=": U+00E9
B64_0xFF == <<95, 119, 61, 61>>          \* "_w==": the byte FF, not UTF-8
B64_short == <<97>>                      \* "a": one data character, not base64
B64_non_ascii == <<97, 71, 107, 61, 233>>            \* "aGk=" and U+00E9
B64_hi_nbsp == <<97, 71, 110, 67, 111, 65, 61, 61>>  \* "aGnCoA==": "hi" and U+00A0

TextPart(mime, data) == [mimeType |-> mime, body |-> [size |-> Len(data), data |-> data]]

\* a part that carries a file: a filename and a body with an attachmentId
FilePart(name) ==
    [mimeType |-> "application/pdf", filename |-> name,
     body |-> [size |-> 3, attachmentId |-> "att1"]]

\* parts without a 'parts' key
PlainHi == TextPart("text/plain", B64_hi)
HtmlSpA == TextPart("text/html", B64_sp_a_nl)
LeafParts ==
    { PlainHi,
      HtmlSpA,
      TextPart("text/plain", B64_e_acute),
      TextPart("image/png", B64_hi),
      [mimeType |-> "text/plain", body |-> [size |-> 0]],
      TextPart("text/plain", B64_0xFF),
      TextPart("text/html", B64_short),
      TextPart("text/plain", B64_non_ascii),
      TextPart("text/plain", B64_hi_nbsp),
      [body |-> [size |-> 2, data |-> B64_hi]],
      FilePart("a.pdf"),
      FilePart(""),
      [filename |-> "bare.txt"] }

\* the sequences over S of length 0..n
SeqsUpTo(S, n) == UNION {[1..k -> S] : k \in 0..n}

Multipart(parts) == [mimeType |-> "multipart/mixed", parts |-> parts]

\* multipart parts of leaves, and multipart parts holding one of those
NestedLeaves == {PlainHi, HtmlSpA, TextPart("image/png", B64_hi), FilePart("a.pdf")}
Level1Parts == {Multipart(ps) : ps \in SeqsUpTo(NestedLeaves, MaxParts)}
Level2Parts == {Multipart(<<p>>) : p \in Level1Parts}
            \cup {[mimeType |-> "text/plain", body |-> [size |-> 2, data |-> B64_hi],
                   parts |-> <<p>>] : p \in NestedLeaves}
            \cup {[mimeType |-> "message/rfc822", filename |-> "fwd.eml",
                   parts |-> <<p>>] : p \in NestedLeaves}
AnyPart == LeafParts \cup Level1Parts \cup Level2Parts

\* payloads: a single part, or a multipart root of at most two parts
Payloads ==
    LeafParts
        \cup {Multipart(<<>>)}
        \cup {Multipart(<<p>>) : p \in AnyPart}
        \cup {Multipart(<<p, q>>) : p \in AnyPart, q \in AnyPart}

\* messages: with a payload, and one without the 'payload' key
Messages == {[id |-> "m1", payload |-> pl] : pl \in Payloads} \cup {[id |-> "m1"]}

\* part.get(key) of Python: the value, or None
GetOpt(d, key) == IF key \in DOMAIN d THEN Some(d[key]) ELSE None

\* the attachment dict process_part builds for a part
AttachmentRecord(part) ==
    [filename |-> part["filename"],
     mime_type |-> GetOpt(part, "mimeType"),
     size |-> Get(Get(part, "body", EmptyDict), "size", 0),
     attachment_id |-> GetOpt(Get(part, "body", EmptyDict), "attachmentId")]

\* process_part: the part's own record when its filename is truthy, then the
\* records of its nested parts
RECURSIVE ProcessPart(_)
RECURSIVE ProcessParts(_)
ProcessPart(part) ==
    (IF Get(part, "filename", "") /= "" THEN <<AttachmentRecord(part)>> ELSE <<>>)
        \o (IF "parts" \in DOMAIN part THEN ProcessParts(part["parts"]) ELSE <<>>)
ProcessParts(parts) ==
    IF parts = <<>> THEN <<>>
    ELSE ProcessPart(Head(parts)) \o ProcessParts(Tail(parts))

\* GmailMapper._extract_attachments
ExtractAttachments(msg) ==
    LET payload == Get(msg, "payload", EmptyDict)
    IN  IF "parts" \in DOMAIN payload THEN ProcessParts(payload["parts"]) ELSE <<>>

\* EmailData.has_attachments
HasAttachments(data) == Len(data.attachments) > 0

\* GmailMapper.map_message_to_email_data (the fields the model follows)
MapMessageToEmailData(msg) ==
    [id |-> msg["id"], body |-> ExtractBody(msg), attachments |-> ExtractAttachments(msg)]

InitMapper ==
    /\ message \in {Some(m) : m \in Messages}
    /\ email = None
    /\ QueryIdle
    /\ RepoIdle
    /\ SideIdle

\* a call map_message_to_email_data(message)
MapMessage ==
    /\ ~IsNone(message) /\ IsNone(email)
    /\ email' = Some(MapMessageToEmailData(Val(message)))
    /\ UNCHANGED <<message, queryVars, repoVars, sideVars>>

NextMapper == MapMessage

SpecMapper == InitMapper /\ [][NextMapper]_vars

\* the parts of a payload tree that have no 'parts' key, in document order
RECURSIVE LeavesOf(_)
RECURSIVE LeavesOfAll(_)
LeavesOf(node) ==
    IF "parts" \in DOMAIN node THEN LeavesOfAll(node["parts"]) ELSE <<node>>
LeavesOfAll(nodes) ==
    IF nodes = <<>> THEN <<>> ELSE LeavesOf(Head(nodes)) \o LeavesOfAll(Tail(nodes))

\* what one leaf contributes according to the claim: its decoded text and a
\* newline when it is text/plain or text/html, has data and decodes; else nothing
Contribution(leaf) ==
    IF /\ "mimeType" \in DOMAIN leaf /\ leaf["mimeType"] \in {"text/plain", "text/html"}
       /\ "body" \in DOMAIN leaf /\ "data" \in DOMAIN leaf["body"]
       /\ DecodeBodyData(leaf["body"]["data"]).ok
    THEN DecodeBodyData(leaf["body"]["data"]).text \o <<10>>
    ELSE <<>>

RECURSIVE ConcatContributions(_)
ConcatContributions(leaves) ==
    IF leaves = <<>> THEN <<>>
    ELSE Contribution(Head(leaves)) \o ConcatContributions(Tail(leaves))

\* t without its leading and trailing whitespace, stated by positions
Stripped(t) ==
    LET solid == {i \in 1..Len(t) : t[i] \notin Whitespace}
    IN  IF solid = {} THEN <<>>
        ELSE SubSeq(t, CHOOSE i \in solid : \A j \in solid : i <= j,
                       CHOOSE i \in solid : \A j \in solid : i >= j)

\* a payload nested three deep, ((" a\n", "hi")), "hi": its body is "a\n\nhi\nhi"
DeepMessage ==
    [id |-> "m1",
     payload |-> Multipart(<<Multipart(<<Multipart(<<HtmlSpA, PlainHi>>)>>), PlainHi>>)]

\* C10: the body of a mapped email is the stripped concatenation, in document
\* order, of the decoded text plus newline of every text/plain or text/html
\* leaf part at any depth; other parts, parts without data and undecodable
\* parts contribute nothing, and the mapping still yields a record.
C10_BodyFlattening ==
    ~IsNone(email) =>
        /\ Val(email).body =
               Stripped(ConcatContributions(
                   LeavesOf(IF "payload" \in DOMAIN Val(message)
                            THEN Val(message)["payload"] ELSE <<>>)))
        /\ Val(message) = DeepMessage =>
               Val(email).body = <<97, 10, 10, 104, 105, 10, 104, 105>>

\* the nodes of a payload tree, the root first, in document order
RECURSIVE NodesOf(_)
RECURSIVE NodesOfAll(_)
NodesOf(node) ==
    <<node>> \o (IF "parts" \in DOMAIN node THEN NodesOfAll(node["parts"]) ELSE <<>>)
NodesOfAll(nodes) ==
    IF nodes = <<>> THEN <<>> ELSE NodesOf(Head(nodes)) \o NodesOfAll(Tail(nodes))

NamedNode(node) == "filename" \in DOMAIN node /\ node["filename"] /= ""

\* the filenames of the nodes that carry one, in order
RECURSIVE Filenames(_)
Filenames(nodes) ==
    IF nodes = <<>> THEN <<>>
    ELSE (IF NamedNode(Head(nodes)) THEN <<Head(nodes)["filename"]>> ELSE <<>>)
             \o Filenames(Tail(nodes))

RECURSIVE FilenamesOf(_)
FilenamesOf(recs) ==
    IF recs = <<>> THEN <<>> ELSE <<Head(recs).filename>> \o FilenamesOf(Tail(recs))

PayloadOf(msg) == IF "payload" \in DOMAIN msg THEN msg["payload"] ELSE <<>>

\* C11 as stated: the attachments of a mapped email hold one record for every
\* node of the payload tree with a non-empty filename, the payload root
\* included, in document order; has_attachments is true exactly when some
\* node carries a filename.
C11_RecordPerNamedNode ==
    ~IsNone(email) =>
        /\ FilenamesOf(Val(email).attachments)
               = Filenames(NodesOf(PayloadOf(Val(message))))
        /\ HasAttachments(Val(email))
               <=> \E k \in 1..Len(NodesOf(PayloadOf(Val(message)))) :
                       NamedNode(NodesOf(PayloadOf(Val(message)))[k])

\* C11, what the mapper does instead: one record for every named node below
\* the payload root, in document order; a filename on the root itself gives
\* no record.
C11_RecordPerNamedNodeBelowRoot ==
    ~IsNone(email) =>
        FilenamesOf(Val(email).attachments)
            = Filenames(Tail(NodesOf(PayloadOf(Val(message)))))

\* a message was mapped whose payload holds a decodable text part nested two
\* levels down, followed by an undecodable text part
C10_Witness ==
    /\ ~IsNone(email)
    /\ Val(message) =
           [id |-> "m1",
            payload |-> Multipart(<<Multipart(<<Multipart(<<HtmlSpA, PlainHi>>)>>),
                                    TextPart("text/plain", B64_0xFF)>>)]
    /\ Val(email).body = <<97, 10, 10, 104, 105>>

-----------------------------------------------------------------------------
(* GmailRepository: cache, retry decorator, operations, batch fetch.        *)
(* An EmailData record is followed by its id and its is_read flag.  The     *)
(* Gmail side answers every request with its current status when that is    *)
(* not 200 (401: the request is not authorized, 429: rate limit, 500:        *)
(* server error); otherwise a message that is "gone" gives 404, and a        *)
(* message that is "unmappable" is returned but makes the mapper raise.      *)

\* stop_after_attempt(3) of every @retry decorator
StopAfterAttempt == 3
\* asyncio.Semaphore(10) of _fetch_messages_batch
SemaphoreLimit == 10

\* TTLCache(maxsize=1000, ...) of the email cache
CacheMaxSize == 1000

\* the ids callers ask for: the first and the last two of the mailbox
CallIds ==
    {i \in 1..Len(gmail.box) : i = 1 \/ i >= Len(gmail.box) - 1}
\* the same ids in the order messages.list answers them
Listing ==
    LET n == Len(gmail.box)
    IN  IF n <= 3 THEN [k \in 1..n |-> k] ELSE <<1, n - 1, n>>
Statuses == {200, 401, 429, 500}
MessageStates == {"read", "unread", "gone", "unmappable"}

Min(a, b) == IF a <= b THEN a ELSE b

(* cachetools.TTLCache *)

\* the entries that have not expired at time t (TTLCache.expire)
CacheExpire(c, t) == SelectSeq(c, LAMBDA e : t < e.expires)

CacheWithout(c, id) == SelectSeq(c, LAMBDA e : e.id /= id)

\* TTLCache.__contains__: the key is stored and has not expired
CacheContains(c, id, t) == \E k \in 1..Len(c) : c[k].id = id /\ t < c[k].expires

CacheEntry(c, id) == c[CHOOSE k \in 1..Len(c) : c[k].id = id]

\* a read that also restarts the entry's time to live
CacheTouchRefresh(c, id) ==
    CacheWithout(c, id)
        \o <<[CacheEntry(c, id) EXCEPT !.stored = @ + 1, !.expires = @ + 1]>>

\* TTLCache.__getitem__ marks the entry as most recently used
CacheTouch(c, id) == CacheWithout(c, id) \o <<CacheEntry(c, id)>>

\* Cache.__setitem__ evicting nothing when the cache is full
CacheEvictNever(c) == c

\* Cache.__setitem__ for a new key: popitem() while there is no room
RECURSIVE CacheEvict(_)
CacheEvict(c) == IF Len(c) >= CacheMaxSize THEN CacheEvict(Tail(c)) ELSE c

\* TTLCache.__setitem__: expire, make room for a new key, store with a new
\* expiry time as the most recently used entry
CacheSet(c, id, rec, t) ==
    LET live == CacheExpire(c, t)
        kept == IF \E k \in 1..Len(live) : live[k].id = id
                THEN CacheWithout(live, id)
                ELSE CacheEvict(live)
    IN  Append(kept, [id |-> id, rec |-> rec, stored |-> t,
                      expires |-> t + settings.cache_ttl])

\* TTLCache.pop(key, None)
CachePop(c, id, t) == IF CacheContains(c, id, t) THEN CacheWithout(c, id) ELSE c

\* a mark operation that leaves the cache alone
CacheMarkNothing(c, id, flag, t) == c

\* `if email_id in self._cache: self._cache[email_id].is_read = flag`
CacheMark(c, id, flag, t) ==
    IF CacheContains(c, id, t)
    THEN CacheWithout(c, id)
             \o <<[CacheEntry(c, id) EXCEPT !.rec = [@ EXCEPT !.is_read = flag]]>>
    ELSE c

(* the Gmail side *)

\* status of messages.get / modify / trash for one id
MessageStatus(id) ==
    IF gmail.status /= 200 THEN gmail.status
    ELSE IF gmail.box[id] = "gone" THEN 404 ELSE 200

\* GmailMapper.map_message_to_email_data on the message Gmail returns for id
MappedRecord(id) == [id |-> id, is_read |-> gmail.box[id] /= "unread"]

\* messages.modify with removeLabelIds / addLabelIds ['UNREAD'], accepted
BoxAfterMark(id, read) ==
    IF gmail.box[id] \in {"read", "unread"}
    THEN [gmail EXCEPT !.box[id] = IF read THEN "read" ELSE "unread"]
    ELSE gmail

\* what a call of authenticate() may do, depending on the token file, the
\* client secrets file and the OAuth side: return with the credentials set
\* (ok), or raise AuthenticationError after it assigned the credentials of the
\* token file (creds) or before it assigned any
AuthOutcomes ==
    {[ok |-> TRUE, creds |-> TRUE],
     [ok |-> FALSE, creds |-> TRUE],
     [ok |-> FALSE, creds |-> FALSE]}

\* _get_service raises: there is no service and there are no credentials
\* yet, so that get_service calls authenticate(), and authenticate() does a,
\* which is to raise
AuthFails(a) == ~service /\ ~hasCreds /\ ~a.ok
\* authenticator.get_service() is called only while _service is unset
AuthCalls == IF service THEN 0 ELSE 1

(* results of an attempt *)

Ret(v) == [kind |-> "return", value |-> v]
Exc(e) == [kind |-> "raise", exc |-> e]

\* the exception the `except HttpError` clauses of get_emails and
\* search_emails raise for a status
ListError(st) ==
    IF st = 429 THEN Exc("RateLimitError") ELSE Exc("EmailServiceError")

\* IdError without the 404 branch: not-found is reported as a rate limit
IdErrorNo404(st) ==
    IF st = 404 \/ st = 429 THEN Exc("RateLimitError") ELSE Exc("EmailServiceError")

\* the exception the `except HttpError` clause of the operations on one id
\* raise for a status
IdError(st) ==
    IF st = 404 THEN Exc("EmailNotFoundError")
    ELSE IF st = 429 THEN Exc("RateLimitError")
    ELSE Exc("EmailServiceError")

\* retry_if_exception_type((HttpError, RateLimitError))
Retryable == {"HttpError", "RateLimitError"}

\* the decorator's decision after an attempt: call the function again
ShouldRetry(res) ==
    res.kind = "raise" /\ res.exc \in Retryable /\ attempt < StopAfterAttempt

\* what the decorated call gives its caller once no further attempt is made:
\* the value, the exception that is not retried, or RetryError when the last
\* allowed attempt raised a retried exception (reraise is not set)
FinalOutcome(res) ==
    IF res.kind = "raise" /\ res.exc \in Retryable THEN Exc("RetryError") ELSE res

\* EmailStats of a list of emails: total_emails and unread_emails
EmailStats(emails) ==
    [total_emails |-> Len(emails),
     unread_emails |-> Cardinality({k \in 1..Len(emails) : ~emails[k].is_read})]

\* what the caller of the operation gets: get_email_stats makes the statistics
\* of the list its decorated call returned, and lets its exception through
CallOutcome(res) ==
    IF ~IsNone(call) /\ Val(call).op = "get_email_stats" /\ res.kind = "return"
    THEN Ret(EmailStats(res.value))
    ELSE res

\* the primed control state after an attempt ended with res
AfterAttempt(res) ==
    IF ShouldRetry(res)
    THEN pc' = "attempt" /\ attempt' = attempt + 1 /\ outcome' = None
    ELSE /\ pc' = "done" /\ attempt' = attempt
         /\ outcome' = Some(CallOutcome(FinalOutcome(res)))

(* calls *)

IdOps == {"get_email_by_id", "mark_as_read", "mark_as_unread", "delete_email"}

\* the limit get_email_stats gives get_emails
StatsLimit == 1000

Calls ==
    {[op |-> o, id |-> i] : o \in IdOps, i \in CallIds}
        \cup {[op |-> "get_emails", limit |-> l, offset |-> o, filters |-> f] :
                 l \in 1..MaxLimit, o \in 0..MaxOffset,
                 f \in {None, Some(AdvancedFilters)}}
        \cup {[op |-> "search_emails", filters |-> AdvancedFilters]}
        \cup {[op |-> "get_email_stats", optional_filters |-> f] :
                 f \in {None, Some(AdvancedFilters)}}
        \cup {[op |-> "get_unread_count"], [op |-> "health_check"]}

\* the decorated operation a call runs, with its arguments: get_email_stats
\* runs search_emails(filters) when it is given filters and
\* get_emails(limit=1000) otherwise; every other call runs itself.  The
\* argument `filters` of get_email_stats is the field optional_filters.
Decorated(c) ==
    IF c.op /= "get_email_stats" THEN c
    ELSE IF ~IsNone(c.optional_filters)
    THEN [op |-> "search_emails", filters |-> Val(c.optional_filters)]
    ELSE [op |-> "get_emails", limit |-> StatsLimit, offset |-> 0, filters |-> None]

\* the operation is entered: its decorator starts attempt 1 (get_unread_count
\* and health_check have no decorator and run once)
CallStart(c) ==
    /\ pc' = "attempt" /\ call' = Some(c) /\ attempt' = 1
    /\ answers' = <<>> /\ nApi' = 0 /\ nAuth' = 0 /\ request' = None
    /\ tasks' = <<>> /\ permits' = 0 /\ served' = None /\ outcome' = None
    /\ UNCHANGED <<settings, gmail, cache, now, service, hasCreds>>

\* a caller invokes a repository operation
Call(c) ==
    /\ pc = "idle"
    /\ CallStart(c)
    /\ UNCHANGED <<queryVars, mapperVars, sideVars>>

Running(op) == pc = "attempt" /\ ~IsNone(call) /\ Decorated(Val(call)).op = op

\* the part of an attempt up to the Gmail request: the service is obtained and
\* the request is counted and answered with status st
Requested(st) ==
    /\ service' = TRUE
    /\ hasCreds' = (service => hasCreds)
    /\ nAuth' = nAuth + AuthCalls
    /\ nApi' = nApi + 1
    /\ answers' = Append(answers, st)

\* an attempt that ends in _get_service: AuthenticationError, wrapped by the
\* `except Exception` clause into EmailServiceError.  The credentials
\* authenticate() assigned before it raised stay set.  res is what the
\* operation makes of the exception.
AuthFailedWith(a, res) ==
    /\ AuthFails(a)
    /\ nAuth' = nAuth + 1
    /\ hasCreds' = a.creds
    /\ AfterAttempt(res)
    /\ UNCHANGED <<settings, gmail, cache, now, service, call, answers, nApi,
                   request, tasks, permits, served, queryVars, mapperVars, sideVars>>

AuthFailed(a) == AuthFailedWith(a, Exc("EmailServiceError"))

\* the operation is left: what it leaves behind is the cache, the service
\* and the mailbox
CallEnd ==
    /\ pc' = "idle" /\ call' = None /\ attempt' = 0
    /\ answers' = <<>> /\ nApi' = 0 /\ nAuth' = 0 /\ request' = None
    /\ tasks' = <<>> /\ permits' = 0 /\ served' = None /\ outcome' = None
    /\ UNCHANGED <<settings, gmail, cache, now, service, hasCreds>>

\* the caller has the outcome
CallReturns ==
    /\ pc = "done"
    /\ CallEnd
    /\ UNCHANGED <<queryVars, mapperVars, sideVars>>

\* one attempt of get_email_by_id
GetEmailByIdAttempt ==
    /\ Running("get_email_by_id")
    /\ LET id == Val(call).id
       IN  IF CacheContains(cache, id, now)
           THEN /\ cache' = CacheTouch(cache, id)
                /\ served' = Some([id |-> id, age |-> now - CacheEntry(cache, id).stored])
                /\ AfterAttempt(Ret(CacheEntry(cache, id).rec))
                /\ UNCHANGED <<gmail, service, hasCreds, answers, nApi, nAuth>>
           ELSE \E a \in AuthOutcomes :
                IF AuthFails(a) THEN AuthFailed(a)
           ELSE LET st == MessageStatus(id)
                IN  /\ Requested(st)
                    /\ IF st = 200 /\ gmail.box[id] /= "unmappable"
                       THEN /\ cache' = CacheSet(cache, id, MappedRecord(id), now)
                            /\ AfterAttempt(Ret(MappedRecord(id)))
                       ELSE /\ cache' = cache
                            /\ AfterAttempt(IF st = 200 THEN Exc("EmailServiceError")
                                            ELSE IdError(st))
                    /\ UNCHANGED <<gmail, served>>
    /\ UNCHANGED <<settings, now, call, request, tasks, permits, queryVars, mapperVars, sideVars>>

\* one attempt of mark_as_read (read = TRUE) or mark_as_unread (read = FALSE)
MarkAttempt(op, read) ==
    /\ Running(op)
    /\ LET id == Val(call).id
       IN  \E a \in AuthOutcomes :
           IF AuthFails(a) THEN AuthFailed(a)
           ELSE LET st == MessageStatus(id)
                IN  /\ Requested(st)
                    /\ IF st = 200
                       THEN /\ gmail' = BoxAfterMark(id, read)
                            /\ cache' = CacheMark(cache, id, read, now)
                            /\ AfterAttempt(Ret(TRUE))
                       ELSE /\ UNCHANGED <<gmail, cache>>
                            /\ AfterAttempt(IdError(st))
                    /\ UNCHANGED served
    /\ UNCHANGED <<settings, now, call, request, tasks, permits, queryVars, mapperVars, sideVars>>

MarkAsReadAttempt == MarkAttempt("mark_as_read", TRUE)
MarkAsUnreadAttempt == MarkAttempt("mark_as_unread", FALSE)

\* one attempt of delete_email
DeleteEmailAttempt ==
    /\ Running("delete_email")
    /\ LET id == Val(call).id
       IN  \E a \in AuthOutcomes :
           IF AuthFails(a) THEN AuthFailed(a)
           ELSE LET st == MessageStatus(id)
                IN  /\ Requested(st)
                    /\ IF st = 200
                       THEN /\ cache' = CachePop(cache, id, now)
                            /\ AfterAttempt(Ret(TRUE))
                       ELSE /\ cache' = cache
                            /\ AfterAttempt(IdError(st))
                    /\ UNCHANGED <<gmail, served>>
    /\ UNCHANGED <<settings, now, call, request, tasks, permits, queryVars, mapperVars, sideVars>>

\* the first n elements of a list: list[:n]
Take(list, n) == SubSeq(list, 1, Min(n, Len(list)))
\* the list without its first n elements: list[n:]
Drop(list, n) == SubSeq(list, n + 1, Len(list))

\* the tasks asyncio.gather is given, one per message, none started
NewTasks(ids) == [k \in 1..Len(ids) |-> [id |-> ids[k], pc |-> "waiting", result |-> None]]

\* the answer of messages.list to a request: the first maxResults matches
ListAnswer(matching, maxResults) == Take(matching, maxResults)

\* the message lists Gmail may hold as the matches of a query
Matchings == {SubSeq(Listing, 1, n) : n \in 0..Len(Listing)}

\* the list get_emails hands to the batch fetch
GetEmailsSlice(messages, limit, offset) ==
    Take(IF offset > 0 THEN Drop(messages, offset) ELSE messages, limit)

\* the attempt continues after messages.list answered 200 with `messages`:
\* an empty answer is returned at once, otherwise the batch fetch of `slice`
\* is started
ListAnswered(messages, slice) ==
    IF messages = <<>>
    THEN /\ AfterAttempt(Ret(<<>>))
         /\ UNCHANGED <<tasks, permits>>
    ELSE /\ pc' = "batch" /\ attempt' = attempt /\ outcome' = None
         /\ tasks' = NewTasks(slice)
         /\ permits' = SemaphoreLimit

\* one attempt of get_emails, up to the start of the batch fetch
GetEmailsAttempt ==
    /\ Running("get_emails")
    /\ \E a \in AuthOutcomes :
       IF AuthFails(a) THEN AuthFailed(a)
       ELSE \E matching \in Matchings :
              LET c == Decorated(Val(call))
                  q == IF ~IsNone(c.filters) THEN BuildQuery(Val(c.filters)) ELSE ""
                  maxResults == Min(c.limit, settings.max_results)
                  st == gmail.status
                  messages == ListAnswer(matching, maxResults)
              IN  /\ Requested(st)
                  /\ request' = Some([q |-> q, maxResults |-> maxResults,
                                      matching |-> matching])
                  /\ IF st = 200
                     THEN ListAnswered(messages, GetEmailsSlice(messages, c.limit, c.offset))
                     ELSE AfterAttempt(ListError(st)) /\ UNCHANGED <<tasks, permits>>
                  /\ UNCHANGED <<settings, gmail, cache, now, call, served,
                                 queryVars, mapperVars, sideVars>>

\* one attempt of search_emails, up to the start of the batch fetch
SearchEmailsAttempt ==
    /\ Running("search_emails")
    /\ \E a \in AuthOutcomes :
       IF AuthFails(a) THEN AuthFailed(a)
       ELSE \E matching \in Matchings :
              LET c == Decorated(Val(call))
                  maxResults == settings.max_results
                  st == gmail.status
                  messages == ListAnswer(matching, maxResults)
              IN  /\ Requested(st)
                  /\ request' = Some([q |-> BuildQuery(c.filters),
                                      maxResults |-> maxResults,
                                      matching |-> matching])
                  /\ IF st = 200
                     THEN ListAnswered(messages, messages)
                     ELSE AfterAttempt(ListError(st)) /\ UNCHANGED <<tasks, permits>>
                  /\ UNCHANGED <<settings, gmail, cache, now, call, served,
                                 queryVars, mapperVars, sideVars>>

\* resultSizeEstimate of the answer to messages.list for q = 'is:unread':
\* the number of unread messages, or the key is absent and 0 is taken
UnreadEstimates == {0, Cardinality({i \in DOMAIN gmail.box : gmail.box[i] = "unread"})}

\* get_unread_count: any exception is raised as EmailServiceError
GetUnreadCountAttempt ==
    /\ Running("get_unread_count")
    /\ \E a \in AuthOutcomes :
       IF AuthFails(a) THEN AuthFailed(a)
       ELSE LET st == gmail.status
            IN  /\ Requested(st)
                /\ IF st = 200
                   THEN \E estimate \in UnreadEstimates : AfterAttempt(Ret(estimate))
                   ELSE AfterAttempt(Exc("EmailServiceError"))
                /\ UNCHANGED <<gmail, cache, served>>
    /\ UNCHANGED <<settings, now, call, request, tasks, permits, queryVars, mapperVars, sideVars>>

\* health_check: True when getProfile is answered, False on any exception
HealthCheckAttempt ==
    /\ Running("health_check")
    /\ \E a \in AuthOutcomes :
       IF AuthFails(a) THEN AuthFailedWith(a, Ret(FALSE))
       ELSE LET st == gmail.status
            IN  /\ Requested(st)
                /\ AfterAttempt(Ret(st = 200))
                /\ UNCHANGED <<gmail, cache, served>>
    /\ UNCHANGED <<settings, now, call, request, tasks, permits, queryVars, mapperVars, sideVars>>

(* _fetch_messages_batch *)

\* the semaphore lets a task in whatever its value
SemaphoreOpenAlways(value) == TRUE

\* asyncio.Semaphore: acquire() goes through without waiting when value > 0
SemaphoreOpen(value) == value > 0

\* the single-message fetches in progress: tasks inside `async with semaphore`
InProgress == {k \in 1..Len(tasks) : tasks[k].pc = "running"}

\* the task whose turn it is to enter the semaphore: tasks are started, and
\* waiters are woken, in list order
NextWaiting == CHOOSE k \in 1..Len(tasks) :
                   /\ tasks[k].pc = "waiting"
                   /\ \A j \in 1..(k - 1) : tasks[j].pc /= "waiting"

\* a task enters `async with semaphore` and runs fetch_single_message up to
\* its first await: a cached message is returned at once (and the semaphore
\* released), otherwise the task is in progress at `await self._get_service()`
BatchEnter ==
    /\ pc = "batch"
    /\ \E k \in 1..Len(tasks) : tasks[k].pc = "waiting"
    /\ SemaphoreOpen(permits)
    /\ LET k == NextWaiting
           id == tasks[k].id
       IN  IF CacheContains(cache, id, now)
           THEN /\ tasks' = [tasks EXCEPT ![k] = [@ EXCEPT !.pc = "done",
                                 !.result = Some(CacheEntry(cache, id).rec)]]
                /\ cache' = CacheTouch(cache, id)
                /\ served' = Some([id |-> id, age |-> now - CacheEntry(cache, id).stored])
                /\ UNCHANGED permits
           ELSE /\ tasks' = [tasks EXCEPT ![k] = [@ EXCEPT !.pc = "running"]]
                /\ permits' = permits - 1
                /\ UNCHANGED <<cache, served>>
    /\ UNCHANGED <<settings, gmail, now, service, hasCreds, pc, call, attempt, answers, nApi,
                   nAuth, request, outcome, queryVars, mapperVars, sideVars>>

\* a task in progress finishes fetch_single_message: service, messages.get,
\* mapping, cache store; any exception gives None; the semaphore is released
BatchFetch(k) ==
    /\ pc = "batch"
    /\ k \in InProgress
    /\ \E a \in AuthOutcomes :
       LET id == tasks[k].id
           st == MessageStatus(id)
           ok == ~AuthFails(a) /\ st = 200 /\ gmail.box[id] /= "unmappable"
       IN  /\ nAuth' = nAuth + AuthCalls
           /\ service' = (service \/ ~AuthFails(a))
           /\ hasCreds' = IF AuthFails(a) THEN a.creds ELSE (service => hasCreds)
           /\ nApi' = IF AuthFails(a) THEN nApi ELSE nApi + 1
           /\ cache' = IF ok THEN CacheSet(cache, id, MappedRecord(id), now) ELSE cache
           /\ tasks' = [tasks EXCEPT ![k] = [@ EXCEPT !.pc = "done",
                            !.result = IF ok THEN Some(MappedRecord(id)) ELSE None]]
    /\ permits' = permits + 1
    /\ UNCHANGED <<settings, gmail, now, pc, call, attempt, answers, request,
                   served, outcome, queryVars, mapperVars, sideVars>>

\* the results of gather that are kept, in any order but the tasks' own
RECURSIVE GatheredReversed(_)
GatheredReversed(ts) ==
    IF ts = <<>> THEN <<>>
    ELSE GatheredReversed(Tail(ts))
             \o (IF IsNone(Head(ts).result) THEN <<>> ELSE <<Val(Head(ts).result)>>)

\* `[result for result in results if result is not None and not
\* isinstance(result, Exception)]` over the results of gather, which are in
\* the order of the tasks
RECURSIVE Gathered(_)
Gathered(ts) ==
    IF ts = <<>> THEN <<>>
    ELSE (IF IsNone(Head(ts).result) THEN <<>> ELSE <<Val(Head(ts).result)>>)
             \o Gathered(Tail(ts))

\* asyncio.gather returns when every task is done; the batch returns the kept
\* results and the operation that called it returns them
BatchGather ==
    /\ pc = "batch"
    /\ \A k \in 1..Len(tasks) : tasks[k].pc = "done"
    /\ AfterAttempt(Ret(Gathered(tasks)))
    /\ UNCHANGED <<settings, gmail, cache, now, service, hasCreds, call, answers, nApi, nAuth,
                   request, tasks, permits, served, queryVars, mapperVars, sideVars>>

(* the environment *)

\* time passes
Tick ==
    /\ pc /= "done"
    /\ now < MaxTime
    /\ now' = now + 1
    /\ UNCHANGED <<settings, gmail, cache, service, hasCreds, pc, call, attempt, answers, nApi,
                   nAuth, request, tasks, permits, served, outcome, queryVars,
                   mapperVars, sideVars>>

\* the Gmail side starts answering with another status
GmailStatusChange ==
    /\ pc /= "done"
    /\ \E st \in Statuses \ {gmail.status} : gmail' = [gmail EXCEPT !.status = st]
    /\ UNCHANGED <<settings, cache, now, service, hasCreds, pc, call, attempt, answers, nApi,
                   nAuth, request, tasks, permits, served, outcome, queryVars,
                   mapperVars, sideVars>>

(* the repository under a sequence of calls *)

\* cache_ttl and max_results values of the settings
CacheTTLs == {0, 1}
MaxResultsValues == {1, 2}

\* the mailbox: message 1 unread, the last message read, gone or unmappable,
\* the messages between them read
Mailboxes ==
    {[i \in 1..NumIds |-> IF i = 1 THEN "unread" ELSE IF i < NumIds THEN "read" ELSE last] :
        last \in {"read", "gone", "unmappable"}}

\* GmailRepository.__init__: an empty cache, no service
InitRepo ==
    /\ settings \in [cache_ttl : CacheTTLs, max_results : MaxResultsValues]
    /\ gmail \in [status : {200}, box : Mailboxes]
    /\ cache = <<>> /\ now = 0 /\ service = FALSE /\ hasCreds = FALSE
    /\ pc = "idle" /\ call = None /\ attempt = 0
    /\ answers = <<>> /\ nApi = 0 /\ nAuth = 0 /\ request = None
    /\ tasks = <<>> /\ permits = 0 /\ served = None /\ outcome = None
    /\ QueryIdle /\ MapperIdle /\ SideIdle

NextRepo ==
    \/ \E c \in Calls : Call(c)
    \/ CallReturns
    \/ GetEmailByIdAttempt
    \/ MarkAsReadAttempt
    \/ MarkAsUnreadAttempt
    \/ DeleteEmailAttempt
    \/ GetEmailsAttempt
    \/ SearchEmailsAttempt
    \/ GetUnreadCountAttempt
    \/ HealthCheckAttempt
    \/ BatchEnter
    \/ \E k \in 1..Len(tasks) : BatchFetch(k)
    \/ BatchGather
    \/ Tick
    \/ GmailStatusChange

SpecRepo == InitRepo /\ [][NextRepo]_vars

(* the operations on one message id *)

NextById ==
    \/ \E c \in {d \in Calls : d.op \in IdOps} : Call(c)
    \/ CallReturns
    \/ GetEmailByIdAttempt
    \/ MarkAsReadAttempt
    \/ MarkAsUnreadAttempt
    \/ DeleteEmailAttempt
    \/ Tick
    \/ GmailStatusChange

SpecById == InitRepo /\ [][NextById]_vars

(* one call of _fetch_messages_batch *)

\* the longest of the short message lists
MaxNewBatch == 3

\* the message lists handed to the batch fetch: the ids of the mailbox, over
\* and over; the short lists, and the list of MaxBatch references, which is
\* longer than the semaphore has permits
BatchLists ==
    {[k \in 1..n |-> ((k - 1) % NumIds) + 1] : n \in (0..MaxNewBatch) \cup {MaxBatch}}

\* _fetch_messages_batch is called with a message list on a repository with
\* an empty cache: one task per message is created for gather, and the
\* semaphore is created with its 10 permits.  The repository has its service,
\* as it has when get_emails or search_emails makes the call, or it is new and
\* the list is a short one.
InitBatch ==
    /\ settings \in [cache_ttl : CacheTTLs, max_results : {1}]
    /\ gmail \in [status : {200}, box : Mailboxes]
    /\ cache = <<>> /\ now = 0
    /\ service \in BOOLEAN /\ hasCreds = service
    /\ \E ids \in BatchLists :
          /\ service \/ Len(ids) <= MaxNewBatch
          /\ call = Some([op |-> "_fetch_messages_batch", messages |-> ids])
          /\ tasks = NewTasks(ids)
    /\ pc = "batch" /\ attempt = 1 /\ permits = SemaphoreLimit
    /\ answers = <<>> /\ nApi = 0 /\ nAuth = 0 /\ request = None
    /\ served = None /\ outcome = None
    /\ QueryIdle /\ MapperIdle /\ SideIdle

NextBatch ==
    \/ BatchEnter
    \/ \E k \in 1..Len(tasks) : BatchFetch(k)
    \/ BatchGather

\* the event loop runs every task that is ready to run
SpecBatch == InitBatch /\ [][NextBatch]_vars /\ WF_vars(NextBatch)

(* the cache at its capacity *)

\* the cache after get_email_by_id was called at time 0 for each of the ids
\* 1 .. CacheMaxSize - 1, all of them read messages
CacheNearlyFull ==
    [i \in 1..(CacheMaxSize - 1) |->
        [id |-> i, rec |-> [id |-> i, is_read |-> TRUE], stored |-> 0, expires |-> 1]]

\* the calls made on the nearly full cache
CacheCalls ==
    {[op |-> "get_email_by_id", id |-> i] : i \in CallIds}
        \cup {[op |-> "get_emails", limit |-> MaxLimit, offset |-> 0, filters |-> None]}

\* a repository whose mailbox holds one message more than the cache can, with
\* all but the last two of them cached
InitCache ==
    /\ settings = [cache_ttl |-> 1, max_results |-> MaxLimit]
    /\ gmail = [status |-> 200, box |-> [i \in 1..(CacheMaxSize + 1) |-> "read"]]
    /\ cache = CacheNearlyFull /\ now = 0 /\ service = TRUE /\ hasCreds = TRUE
    /\ pc = "idle" /\ call = None /\ attempt = 0
    /\ answers = <<>> /\ nApi = 0 /\ nAuth = 0 /\ request = None
    /\ tasks = <<>> /\ permits = 0 /\ served = None /\ outcome = None
    /\ QueryIdle /\ MapperIdle /\ SideIdle

NextCache ==
    \/ \E c \in CacheCalls : Call(c)
    \/ CallReturns
    \/ GetEmailByIdAttempt
    \/ GetEmailsAttempt
    \/ BatchEnter
    \/ \E k \in 1..Len(tasks) : BatchFetch(k)
    \/ BatchGather
    \/ Tick

SpecCache == InitCache /\ [][NextCache]_vars

-----------------------------------------------------------------------------
(* EmailAnalyzerServer: the four tool handlers                              *)
(*                                                                         *)
(* Message ids are numbered as in the mailbox; 0 stands for the empty id    *)
(* string. A handler's arguments are a dict: a record that may lack keys.   *)
(* Every handler body is inside `try: ... except Exception as e: raise      *)
(* McpError(INTERNAL_ERROR, ...)`, and McpError is itself an Exception.     *)

\* `if len(email_ids) > 50` of email_classify
MaxClassify == 50
\* `if limit > 100` of email_search
MaxSearchLimit == 100
\* arguments.get("batch_size", 10) and arguments.get("limit", 20)
DefaultBatchSize == 10
DefaultLimit == 20

\* the methods GmailRepository has (its own and the inherited concrete ones)
RepositoryMethods ==
    {"get_emails", "get_email_by_id", "search_emails", "mark_as_read",
     "mark_as_unread", "delete_email", "get_unread_count", "health_check",
     "mark_multiple_as_read", "mark_multiple_as_unread", "delete_multiple_emails",
     "get_email_stats"}
\* the parameters of GmailRepository.search_emails besides self
SearchEmailsParameters == {"filters"}
\* the keyword arguments email_search passes to search_emails
SearchKeywords ==
    {"query", "sender", "subject_contains", "date_from", "date_to",
     "has_attachments", "is_unread", "limit"}

\* the tool result: a TextContent with the JSON of `body`
ToolResult(body) == [kind |-> "result", body |-> body]
\* McpError(code, ...) leaving the handler; cause names the exception caught
ToolError(code, cause) == [kind |-> "error", code |-> code, cause |-> cause]

\* the `except Exception` clause that ends every handler
HandlerExcept(cause) == ToolError("INTERNAL_ERROR", cause)

\* the exception self.gmail_repo.<name>(...) raises before any call is made
MissingMethod(name) ==
    IF name \in RepositoryMethods THEN "none" ELSE "AttributeError"

(* email_analyze *)

EmailAnalyze(args) ==
    IF Get(args, "email_id", 0) = 0
    THEN HandlerExcept("INVALID_PARAMS")
    ELSE HandlerExcept(MissingMethod("get_email"))

(* email_classify *)

\* the entry _classify_batch appends for one id: get_email is looked up on
\* the repository and the lookup fails
ClassifyEntry(id) ==
    [email_id |-> id, success |-> FALSE, error |-> MissingMethod("get_email")]

RECURSIVE ClassifyBatch(_)
ClassifyBatch(ids) ==
    IF ids = <<>> THEN <<>>
    ELSE <<ClassifyEntry(Head(ids))>> \o ClassifyBatch(Tail(ids))

\* a batch that leaves out the last id of the slice
BatchSliceShort(ids, i, size) == SubSeq(ids, i + 1, Min(i + size, Len(ids)) - 1)

\* email_ids[i:i + batch_size]
BatchSlice(ids, i, size) == SubSeq(ids, i + 1, Min(i + size, Len(ids)))

\* `for i in range(0, len(email_ids), batch_size): results.extend(...)`,
\* from offset i on
RECURSIVE ClassifyFrom(_, _, _)
ClassifyFrom(ids, i, size) ==
    IF i >= Len(ids) THEN <<>>
    ELSE ClassifyBatch(BatchSlice(ids, i, size)) \o ClassifyFrom(ids, i + size, size)

EmailClassify(args) ==
    LET ids == Get(args, "email_ids", <<>>)
        size == Get(args, "batch_size", DefaultBatchSize)
        results == ClassifyFrom(ids, 0, size)
    IN  IF ids = <<>> THEN HandlerExcept("INVALID_PARAMS")
        ELSE IF Len(ids) > MaxClassify THEN HandlerExcept("INVALID_PARAMS")
        ELSE ToolResult([classification_type |-> Get(args, "classification_type", "category"),
                         total_processed |-> Len(results),
                         results |-> results])

(* email_search *)

\* the exception the call search_emails(query=..., ..., limit=...) raises
\* before the method body runs: it takes none of these keywords
SearchCallError ==
    IF SearchKeywords \subseteq SearchEmailsParameters THEN "none" ELSE "TypeError"

EmailSearch(args) ==
    IF Get(args, "limit", DefaultLimit) > MaxSearchLimit
    THEN HandlerExcept("INVALID_PARAMS")
    ELSE HandlerExcept(SearchCallError)

(* email_action *)

ValidActions == {"read", "archive", "delete", "label"}

\* the two checks of email_action before _execute_action
EmailActionInvalid(args) ==
    \/ Get(args, "email_ids", <<>>) = <<>>
    \/ Get(args, "action", "none") \notin ValidActions

ServerIdle == [tpc |-> "idle"]
serverFrame == <<queryVars, mapperVars, construction, auth, factory, caller>>

\* a handler that makes no repository call runs from entry to answer
HandlerRuns(tool, args, answer) ==
    /\ server.tpc = "idle" /\ pc = "idle"
    /\ server' = [tpc |-> "done", tool |-> tool, args |-> args, results |-> <<>>,
                  forwarded |-> <<>>, response |-> Some(answer)]
    /\ UNCHANGED <<repoVars, serverFrame>>

EmailAnalyzeCall(args) == HandlerRuns("email_analyze", args, EmailAnalyze(args))
EmailClassifyCall(args) == HandlerRuns("email_classify", args, EmailClassify(args))
EmailSearchCall(args) == HandlerRuns("email_search", args, EmailSearch(args))

\* email_action up to the loop of _execute_action
EmailActionCall(args) ==
    /\ server.tpc = "idle" /\ pc = "idle"
    /\ server' = [tpc |-> IF EmailActionInvalid(args) THEN "done" ELSE "loop",
                  tool |-> "email_action", args |-> args, results |-> <<>>,
                  forwarded |-> <<>>,
                  response |-> IF EmailActionInvalid(args)
                               THEN Some(HandlerExcept("INVALID_PARAMS")) ELSE None]
    /\ UNCHANGED <<repoVars, serverFrame>>

\* the result entry of an id whose action raised
ActionFailed(id, action, error) ==
    [email_id |-> id, action |-> action, success |-> FALSE, error |-> error]

\* an entry that reports what the operation returned and drops what it raised
ActionEntryNoError(id, action, res) ==
    [email_id |-> id, action |-> action,
     success |-> IF res.kind = "return" THEN res.value ELSE FALSE]

\* the result entry of an id whose repository operation ended with res
ActionEntry(id, action, res) ==
    IF res.kind = "return"
    THEN [email_id |-> id, action |-> action, success |-> res.value]
    ELSE ActionFailed(id, action, res.exc)

\* the repository operation _execute_action calls for an action
ActionMethod(action) ==
    CASE action = "read" -> "mark_as_read"
      [] action = "archive" -> "archive_email"
      [] action = "delete" -> "delete_email"
      [] action = "label" -> "add_labels"

\* _execute_action reaches the next id: an operation the repository has is
\* called; otherwise the iteration ends in its `except Exception` clause
ActionNext ==
    /\ server.tpc = "loop" /\ pc = "idle"
    /\ Len(server.results) < Len(server.args["email_ids"])
    /\ LET id == server.args["email_ids"][Len(server.results) + 1]
           action == server.args["action"]
           labels == Get(Get(server.args, "action_params", EmptyDict), "label_ids", <<>>)
       IN  IF action = "label" /\ labels = <<>>
           THEN /\ server' = [server EXCEPT
                      !.results = Append(@, ActionFailed(id, action, "ValueError"))]
                /\ UNCHANGED repoVars
           ELSE IF ActionMethod(action) \notin RepositoryMethods
           THEN /\ server' = [server EXCEPT
                      !.results = Append(@, ActionFailed(id, action,
                                                MissingMethod(ActionMethod(action))))]
                /\ UNCHANGED repoVars
           ELSE /\ CallStart([op |-> ActionMethod(action), id |-> id])
                /\ server' = [server EXCEPT !.tpc = "waiting",
                                            !.forwarded = Append(@, ActionMethod(action))]
    /\ UNCHANGED serverFrame

\* the repository operation hands its outcome to _execute_action
ActionResume ==
    /\ server.tpc = "waiting" /\ pc = "done"
    /\ LET id == Val(call).id
       IN  server' = [server EXCEPT !.tpc = "loop",
               !.results = Append(@, ActionEntry(id, server.args["action"], Val(outcome)))]
    /\ CallEnd
    /\ UNCHANGED serverFrame

\* the loop is over: email_action returns its result
ActionReturn ==
    /\ server.tpc = "loop" /\ pc = "idle"
    /\ Len(server.results) = Len(server.args["email_ids"])
    /\ server' = [server EXCEPT !.tpc = "done",
           !.response = Some(ToolResult([action |-> server.args["action"],
                                         total_emails |-> Len(server.args["email_ids"]),
                                         results |-> server.results]))]
    /\ UNCHANGED <<repoVars, serverFrame>>

\* the client has the answer
ToolAnswered ==
    /\ server.tpc = "done"
    /\ server' = ServerIdle
    /\ UNCHANGED <<repoVars, serverFrame>>

(* the tool calls clients make *)

\* most ids of an email_action call
MaxActionIds == 2

\* lists of n ids that go round the mailbox
IdList(n) == [k \in 1..n |-> ((k - 1) % NumIds) + 1]

AnalyzeArgs == {EmptyDict, [email_id |-> 0], [email_id |-> 1]}
ClassifyArgs ==
    {[email_ids |-> IdList(n)] : n \in {0, 1, 3}}
        \cup {[email_ids |-> IdList(n), classification_type |-> "priority",
               batch_size |-> b] :
                 n \in {3, MaxClassify - 1, MaxClassify, MaxClassify + 1}, b \in {1, 2, 20}}
SearchArgs ==
    {EmptyDict}
        \cup {[query |-> "is:unread", filters |-> [sender |-> "a@x.com"], limit |-> l] :
                 l \in {5, MaxSearchLimit, MaxSearchLimit + 1}}
ActionArgs ==
    {[action |-> "read"], [email_ids |-> <<>>, action |-> "read"],
     [email_ids |-> <<1>>], [email_ids |-> <<1>>, action |-> "move"]}
        \cup {[email_ids |-> ids, action |-> a] :
                 ids \in UNION {[1..n -> 1..NumIds] : n \in 1..MaxActionIds},
                 a \in ValidActions}
        \cup {[email_ids |-> IdList(MaxActionIds), action |-> "label",
               action_params |-> ps] :
                 ps \in {EmptyDict, [label_ids |-> <<>>], [label_ids |-> <<"L1">>]}}

\* EmailAnalyzerServer.__init__: a new repository, no tool call
InitServer ==
    /\ settings = [cache_ttl |-> 1, max_results |-> 1]
    /\ gmail \in [status : {200}, box : Mailboxes]
    /\ cache = <<>> /\ now = 0 /\ service = FALSE /\ hasCreds = FALSE
    /\ pc = "idle" /\ call = None /\ attempt = 0
    /\ answers = <<>> /\ nApi = 0 /\ nAuth = 0 /\ request = None
    /\ tasks = <<>> /\ permits = 0 /\ served = None /\ outcome = None
    /\ server = ServerIdle
    /\ construction = None /\ auth = None /\ factory = None /\ caller = None
    /\ QueryIdle /\ MapperIdle

NextServer ==
    \/ \E a \in AnalyzeArgs : EmailAnalyzeCall(a)
    \/ \E a \in ClassifyArgs : EmailClassifyCall(a)
    \/ \E a \in SearchArgs : EmailSearchCall(a)
    \/ \E a \in ActionArgs : EmailActionCall(a)
    \/ ActionNext
    \/ ActionResume
    \/ ActionReturn
    \/ ToolAnswered
    \/ MarkAsReadAttempt
    \/ DeleteEmailAttempt
    \/ GmailStatusChange

SpecServer == InitServer /\ [][NextServer]_vars

-----------------------------------------------------------------------------
(* AnalysisResult: the dataclass of core/models.py and the one of            *)
(* core/interfaces.py, which replaces the name imported from models.         *)
(* A confidence is counted in tenths: 10 stands for 1.0.                     *)

Sentiments == {"positive", "negative", "neutral"}
Priorities == {"high", "medium", "low"}

\* the checks of __post_init__, in order; "none" when all pass
PostInit(r) ==
    IF r.email_id = "" THEN "ValueError"
    ELSE IF r.sentiment \notin Sentiments THEN "ValueError"
    ELSE IF r.priority \notin Priorities THEN "ValueError"
    ELSE IF ~(0 <= r.confidence /\ r.confidence <= 10) THEN "ValueError"
    ELSE "none"

\* core.models.AnalysisResult(...): the generated __init__ sets the fields
\* and calls __post_init__
ModelsAnalysisResult(args) ==
    IF PostInit(args) = "none" THEN Ret(args) ELSE Exc(PostInit(args))

\* core.interfaces.AnalysisResult(...): a dataclass without __post_init__
InterfacesAnalysisResult(args) == Ret(args)

AnalysisResultArgs ==
    [email_id : {"", "m1"},
     sentiment : Sentiments \cup {"happy", ""},
     priority : Priorities \cup {"urgent"},
     category : {"work"},
     confidence : {-1, 0, 5, 10, 11},
     summary : {"s"}]

\* a caller that did `from core.models import AnalysisResult`
ConstructModels(args) ==
    /\ construction' = Some([cls |-> "core.models", args |-> args,
                             outcome |-> ModelsAnalysisResult(args)])
    /\ UNCHANGED <<queryVars, mapperVars, repoVars, server, auth, factory, caller>>

\* a caller that did `from core.interfaces import AnalysisResult`
ConstructInterfaces(args) ==
    /\ construction' = Some([cls |-> "core.interfaces", args |-> args,
                             outcome |-> InterfacesAnalysisResult(args)])
    /\ UNCHANGED <<queryVars, mapperVars, repoVars, server, auth, factory, caller>>

InitRecords == QueryIdle /\ MapperIdle /\ RepoIdle /\ SideIdle

NextRecords ==
    \/ \E args \in AnalysisResultArgs : ConstructModels(args)
    \/ \E args \in AnalysisResultArgs : ConstructInterfaces(args)

SpecRecords == InitRecords /\ [][NextRecords]_vars

-----------------------------------------------------------------------------
(* GmailAuthenticator (src/gmail/auth.py).  Credentials are a record of      *)
(* the access token (0: no token), the expiry time (-1: no expiry) and        *)
(* whether there is a refresh token.  auth.file is the token file (None: no   *)
(* file), auth.creds is self.creds, auth.last describes the call of           *)
(* authenticate that has just ended.                                          *)

\* most access tokens Google issues in a run
MaxTokens == 3

\* Credentials.to_json()
ToJson(c) == [token |-> c.token, expiry |-> c.expiry, refresh_token |-> c.refresh_token]
\* Credentials.from_authorized_user_file(token_path, scopes)
FromAuthorizedUserFile(j) ==
    [token |-> j.token, expiry |-> j.expiry, refresh_token |-> j.refresh_token]

\* Credentials.expired and Credentials.valid at time t
Expired(c, t) == c.expiry >= 0 /\ t >= c.expiry
Valid(c, t) == c.token # 0 /\ ~Expired(c, t)

\* self.creds after the `if os.path.exists(token_path)` block
Loaded(a) ==
    IF IsNone(a.file) THEN a.creds ELSE Some(FromAuthorizedUserFile(Val(a.file)))

\* `not self.creds or not self.creds.valid`
NeedsLogin(a) == IsNone(Loaded(a)) \/ ~Valid(Val(Loaded(a)), a.clock)

\* `self.creds and self.creds.expired and self.creds.refresh_token`
UsesRefresh(a) ==
    /\ ~IsNone(Loaded(a))
    /\ Expired(Val(Loaded(a)), a.clock)
    /\ Val(Loaded(a)).refresh_token

\* the token file after `token.write(self.creds.to_json())`
TokenFile(a, c) == Some(ToJson(c))

NoCall == [result |-> "none"]

\* what a call of authenticate that ended leaves behind
Authenticated(a, result, creds, file, used, wrote) ==
    [a EXCEPT !.creds = creds, !.file = file,
              !.issued = IF creds = Loaded(a) THEN @ ELSE @ + 1,
              !.last = [result |-> result, returned |-> creds, used |-> used,
                        wrote |-> wrote, stored |-> a.file, loaded |-> Loaded(a)]]

\* authenticate(): refreshOk, flowOk and writeOk say whether creds.refresh,
\* the OAuth flow and open(token_path, 'w') go through; flowRefresh whether
\* the flow hands out a refresh token
Authenticate(refreshOk, flowOk, flowRefresh, writeOk) ==
    /\ auth.issued < MaxTokens
    /\ LET fresh == [token |-> auth.issued + 1, expiry |-> auth.clock + 1,
                     refresh_token |-> IF UsesRefresh(auth) THEN TRUE ELSE flowRefresh]
           used == IF UsesRefresh(auth) THEN "refresh" ELSE "flow"
           obtained == IF UsesRefresh(auth) THEN refreshOk ELSE flowOk
       IN  auth' =
             IF ~NeedsLogin(auth)
             THEN Authenticated(auth, "return", Loaded(auth), auth.file, "none", FALSE)
             ELSE IF ~obtained
             THEN Authenticated(auth, "raise", Loaded(auth), auth.file, used, FALSE)
             ELSE IF ~writeOk
             THEN Authenticated(auth, "raise", Some(fresh), auth.file, used, FALSE)
             ELSE Authenticated(auth, "return", Some(fresh),
                                TokenFile(auth, fresh), used, TRUE)
    /\ UNCHANGED <<queryVars, mapperVars, repoVars, server, construction, factory, caller>>

\* revoke_credentials(): revokeOk and removeOk say whether creds.revoke and
\* os.remove go through; a failure raises before anything local changes
RevokeCredentials(revokeOk, removeOk) ==
    /\ auth' =
         IF (~IsNone(auth.creds) /\ ~revokeOk) \/ (~IsNone(auth.file) /\ ~removeOk)
         THEN [auth EXCEPT !.last = NoCall]
         ELSE [auth EXCEPT !.creds = None, !.file = None, !.last = NoCall]
    /\ UNCHANGED <<queryVars, mapperVars, repoVars, server, construction, factory, caller>>

\* time passes
AuthTick ==
    /\ auth.clock < MaxTime
    /\ auth' = [auth EXCEPT !.clock = @ + 1, !.last = NoCall]
    /\ UNCHANGED <<queryVars, mapperVars, repoVars, server, construction, factory, caller>>

\* the token files a run can start with
StoredTokens ==
    {None} \cup {Some([token |-> t, expiry |-> e, refresh_token |-> r]) :
                    t \in {0, 1}, e \in {-1, 1}, r \in BOOLEAN}

\* GmailAuthenticator.__init__: no credentials in memory
InitAuth ==
    /\ auth \in [file : StoredTokens, creds : {None}, clock : {0}, issued : {1},
                 last : {NoCall}]
    /\ server = None /\ construction = None /\ factory = None /\ caller = None
    /\ QueryIdle /\ MapperIdle /\ RepoIdle

NextAuth ==
    \/ \E refreshOk, flowOk, flowRefresh, writeOk \in BOOLEAN :
          Authenticate(refreshOk, flowOk, flowRefresh, writeOk)
    \/ \E revokeOk, removeOk \in BOOLEAN : RevokeCredentials(revokeOk, removeOk)
    \/ AuthTick

SpecAuth == InitAuth /\ [][NextAuth]_vars

-----------------------------------------------------------------------------
(* GmailRepositoryFactory (src/gmail/factory.py).  factory.instance and      *)
(* factory.settings are the class attributes _instance and _settings; a      *)
(* repository object is known by the number of its construction;             *)
(* factory.log lists the calls made so far with what they gave.              *)

\* most calls of the factory in a run
MaxCalls == 4

\* _validate_settings: "none" when nothing is raised
ValidateSettings(s) ==
    IF s.credentials_path = "" THEN "ConfigurationError"
    ELSE IF s.token_path = "" THEN "ConfigurationError"
    ELSE IF s.scopes = <<>> THEN "ConfigurationError"
    ELSE IF s.max_results <= 0 THEN "ConfigurationError"
    ELSE IF s.cache_ttl < 0 THEN "ConfigurationError"
    ELSE "none"

\* a factory that builds a repository only when it has none
NeedsNewInstanceOnlyIfNone(f, s) == IsNone(f.instance)

\* `cls._instance is None or cls._settings != settings`
NeedsNewInstance(f, s) == IsNone(f.instance) \/ f.settings # Some(s)

\* GmailRepository(settings), the n-th object built
NewRepository(n, s) == [object |-> n, settings |-> s]

\* the class attributes after create(s)
Created(f, s) ==
    IF ValidateSettings(s) = "none" /\ NeedsNewInstance(f, s)
    THEN [f EXCEPT !.instance = Some(NewRepository(f.built + 1, s)),
                   !.settings = Some(s),
                   !.built = @ + 1]
    ELSE f

\* what create(s) gives its caller
CreateResult(f, s) ==
    IF ValidateSettings(s) = "none"
    THEN Ret(Val(Created(f, s).instance))
    ELSE Exc("ConfigurationError")

\* GmailRepositoryFactory.create(settings)
FactoryCreate(s) ==
    /\ Len(factory.log) < MaxCalls
    /\ factory' = [Created(factory, s) EXCEPT
           !.log = Append(@, [op |-> "create", settings |-> s,
                              result |-> CreateResult(factory, s)])]
    /\ UNCHANGED <<queryVars, mapperVars, repoVars, server, construction, auth, caller>>

\* GmailRepositoryFactory.reset()
FactoryReset ==
    /\ Len(factory.log) < MaxCalls
    /\ factory' = [factory EXCEPT !.instance = None, !.settings = None,
                                  !.log = Append(@, [op |-> "reset"])]
    /\ UNCHANGED <<queryVars, mapperVars, repoVars, server, construction, auth, caller>>

\* GmailRepositoryFactory.get_instance()
FactoryGetInstance ==
    /\ Len(factory.log) < MaxCalls
    /\ factory' = [factory EXCEPT
           !.log = Append(@, [op |-> "get_instance", result |-> Ret(factory.instance)])]
    /\ UNCHANGED <<queryVars, mapperVars, repoVars, server, construction, auth, caller>>

\* GmailSettings with the given fields
GmailSettings(c, t, sc, m) ==
    [credentials_path |-> c, token_path |-> t, scopes |-> sc, max_results |-> m,
     cache_ttl |-> 0]

\* the settings callers pass: two that differ in max_results and three
\* that _validate_settings refuses
FactorySettings ==
    {GmailSettings("credentials.json", "token.json", <<"gmail.modify">>, m) : m \in {1, 2}}
        \cup {GmailSettings("", "token.json", <<"gmail.modify">>, 1),
              GmailSettings("credentials.json", "", <<"gmail.modify">>, 1),
              GmailSettings("credentials.json", "token.json", <<>>, 1)}

\* the class as first imported
InitFactory ==
    /\ factory = [instance |-> None, settings |-> None, built |-> 0, log |-> <<>>]
    /\ server = None /\ construction = None /\ auth = None /\ caller = None
    /\ QueryIdle /\ MapperIdle /\ RepoIdle

NextFactory ==
    \/ \E s \in FactorySettings : FactoryCreate(s)
    \/ FactoryReset
    \/ FactoryGetInstance

SpecFactory == InitFactory /\ [][NextFactory]_vars

-----------------------------------------------------------------------------
(* EmailRepository.mark_multiple_as_read, mark_multiple_as_unread and       *)
(* delete_multiple_emails (src/core/interfaces.py), which GmailRepository   *)
(* inherits.  caller.ids is the list given, caller.ended the outcomes of    *)
(* the single operations made so far, caller.successful_ids the list being  *)
(* built.                                                                   *)

\* longest list of ids given to an operation on several emails
MaxMultiIds == 2

MultiOps == {"mark_multiple_as_read", "mark_multiple_as_unread", "delete_multiple_emails"}

\* the operation the loop awaits for each id
SingleOp(m) ==
    CASE m = "mark_multiple_as_read" -> "mark_as_read"
      [] m = "mark_multiple_as_unread" -> "mark_as_unread"
      [] m = "delete_multiple_emails" -> "delete_email"

\* a loop whose `except` clause leaves the list as it is and the loop too
LoopGoesOnUnlessRaised(res) == res.kind = "return"

\* `except Exception: continue`: the loop goes on whatever the operation gave
LoopGoesOn(res) == TRUE

\* successful_ids after the iteration of id, whose operation ended with res
SuccessfulIds(ids, id, res) ==
    IF res.kind = "return" /\ res.value THEN Append(ids, id) ELSE ids

CallerIdle == [mpc |-> "idle"]

\* a caller invokes one of the three operations with a list of ids
MultiCall(m, ids) ==
    /\ caller.mpc = "idle" /\ pc = "idle"
    /\ caller' = [mpc |-> "loop", op |-> m, ids |-> ids, ended |-> <<>>,
                  successful_ids |-> <<>>, result |-> None]
    /\ UNCHANGED <<repoVars, queryVars, mapperVars, server, construction, auth, factory>>

\* `for email_id in email_ids: ... await self.mark_as_read(email_id)`
MultiNext ==
    /\ caller.mpc = "loop" /\ pc = "idle"
    /\ Len(caller.ended) < Len(caller.ids)
    /\ CallStart([op |-> SingleOp(caller.op), id |-> caller.ids[Len(caller.ended) + 1]])
    /\ caller' = [caller EXCEPT !.mpc = "waiting"]
    /\ UNCHANGED <<queryVars, mapperVars, server, construction, auth, factory>>

\* the single operation ended: the id is appended when it returned True
MultiResume ==
    /\ caller.mpc = "waiting" /\ pc = "done"
    /\ caller' = [caller EXCEPT
           !.mpc = IF LoopGoesOn(Val(outcome)) THEN "loop" ELSE "left",
           !.ended = Append(@, Val(outcome)),
           !.successful_ids = SuccessfulIds(@, Val(call).id, Val(outcome))]
    /\ CallEnd
    /\ UNCHANGED <<queryVars, mapperVars, server, construction, auth, factory>>

\* `return successful_ids`
MultiReturn ==
    /\ caller.mpc \in {"loop", "left"} /\ pc = "idle"
    /\ caller.mpc = "loop" => Len(caller.ended) = Len(caller.ids)
    /\ caller' = [caller EXCEPT !.mpc = "done",
                                !.result = Some(Ret(caller.successful_ids))]
    /\ UNCHANGED <<repoVars, queryVars, mapperVars, server, construction, auth, factory>>

\* the caller has the list
MultiAnswered ==
    /\ caller.mpc = "done"
    /\ caller' = CallerIdle
    /\ UNCHANGED <<repoVars, queryVars, mapperVars, server, construction, auth, factory>>

\* the lists of ids callers give
MultiIds == UNION {[1..n -> 1..NumIds] : n \in 0..MaxMultiIds}

\* a new repository, nothing called yet
InitMulti ==
    /\ settings = [cache_ttl |-> 1, max_results |-> 1]
    /\ gmail \in [status : {200}, box : Mailboxes]
    /\ cache = <<>> /\ now = 0 /\ service = FALSE /\ hasCreds = FALSE
    /\ pc = "idle" /\ call = None /\ attempt = 0
    /\ answers = <<>> /\ nApi = 0 /\ nAuth = 0 /\ request = None
    /\ tasks = <<>> /\ permits = 0 /\ served = None /\ outcome = None
    /\ caller = CallerIdle
    /\ server = None /\ construction = None /\ auth = None /\ factory = None
    /\ QueryIdle /\ MapperIdle

\* the steps of the repository once one of the operations is called
MultiRuns ==
    \/ MultiNext
    \/ MultiResume
    \/ MultiReturn
    \/ MarkAsReadAttempt
    \/ MarkAsUnreadAttempt
    \/ DeleteEmailAttempt

NextMulti ==
    \/ \E m \in MultiOps, ids \in MultiIds : MultiCall(m, ids)
    \/ MultiRuns
    \/ MultiAnswered
    \/ GmailStatusChange

\* the event loop runs the coroutine as long as it can take a step
SpecMulti == InitMulti /\ [][NextMulti]_vars /\ WF_vars(MultiRuns)

-----------------------------------------------------------------------------
(* GmailSettings.retry_attempts (src/server/config.py) and the retry         *)
(* decorator of the repository operations                                    *)

\* `ge=1, le=10` of the retry_attempts field
MinRetryAttempts == 1
MaxRetryAttempts == 10

\* GmailRepository(settings) for each allowed retry_attempts
InitRetry ==
    /\ settings \in [cache_ttl : {0}, max_results : {1},
                     retry_attempts : MinRetryAttempts..MaxRetryAttempts]
    /\ gmail \in [status : {200, 429}, box : Mailboxes]
    /\ cache = <<>> /\ now = 0 /\ service = FALSE /\ hasCreds = FALSE
    /\ pc = "idle" /\ call = None /\ attempt = 0
    /\ answers = <<>> /\ nApi = 0 /\ nAuth = 0 /\ request = None
    /\ tasks = <<>> /\ permits = 0 /\ served = None /\ outcome = None
    /\ QueryIdle /\ MapperIdle /\ SideIdle

NextRetry ==
    \/ \E c \in {d \in Calls : d.op \in IdOps} : Call(c)
    \/ CallReturns
    \/ GetEmailByIdAttempt
    \/ MarkAsReadAttempt
    \/ MarkAsUnreadAttempt
    \/ DeleteEmailAttempt
    \/ GmailStatusChange

SpecRetry == InitRetry /\ [][NextRetry]_vars

-----------------------------------------------------------------------------
(* A caller that makes one call after the other of get_email_by_id,         *)
(* mark_as_read and mark_as_unread and keeps what each call gave:           *)
(* caller.script lists the calls it is going to make, caller.log, per call  *)
(* that ended, the call, its outcome and the cache hit that served it.      *)

ReadOps == {"get_email_by_id", "mark_as_read", "mark_as_unread"}

\* the calls on one id
CallsOn(ids) == {[op |-> o, id |-> i] : o \in ReadOps, i \in ids}

\* at most one call from a set
AtMostOne(S) == {<<>>} \cup {<<c>> : c \in S}

\* what callers do around a mark operation on id: any call on id or none,
\* the mark operation, a call on another id or none, get_email_by_id(id)
Scripts ==
    UNION {{before \o <<[op |-> m, id |-> id]>> \o between
                \o <<[op |-> "get_email_by_id", id |-> id]>> :
              before \in AtMostOne(CallsOn({id})),
              m \in {"mark_as_read", "mark_as_unread"},
              between \in AtMostOne(CallsOn((1..NumIds) \ {id}))} :
           id \in 1..NumIds}

\* the caller awaits its next call
ScriptCall ==
    /\ Len(caller.log) < Len(caller.script)
    /\ Call(caller.script[Len(caller.log) + 1])

\* the call ended and the caller has its outcome
ScriptReturn ==
    /\ pc = "done"
    /\ caller' = [caller EXCEPT
           !.log = Append(@, [call |-> Val(call), outcome |-> Val(outcome),
                              served |-> served])]
    /\ CallEnd
    /\ UNCHANGED <<queryVars, mapperVars, server, construction, auth, factory>>

\* a new repository with a cache that keeps entries for one unit of time
InitScript ==
    /\ settings = [cache_ttl |-> 1, max_results |-> 1]
    /\ gmail \in [status : {200}, box : Mailboxes]
    /\ cache = <<>> /\ now = 0 /\ service = FALSE /\ hasCreds = FALSE
    /\ pc = "idle" /\ call = None /\ attempt = 0
    /\ answers = <<>> /\ nApi = 0 /\ nAuth = 0 /\ request = None
    /\ tasks = <<>> /\ permits = 0 /\ served = None /\ outcome = None
    /\ caller \in [script : Scripts, log : {<<>>}]
    /\ server = None /\ construction = None /\ auth = None /\ factory = None
    /\ QueryIdle /\ MapperIdle

NextScript ==
    \/ ScriptCall
    \/ ScriptReturn
    \/ GetEmailByIdAttempt
    \/ MarkAsReadAttempt
    \/ MarkAsUnreadAttempt
    \/ Tick
    \/ GmailStatusChange

SpecScript == InitScript /\ [][NextScript]_vars

-----------------------------------------------------------------------------
(* The exceptions of src/gmail/exceptions.py and map_google_api_error.      *)
(* A Python value is a record named after its type: PyNone, Str(s) for a    *)
(* string, Dict(items) for a dict with the given set of <<key, value>>      *)
(* items, List(seq) for a list.  An exception is its class and its          *)
(* attributes.                                                              *)

PyNone == [none |-> TRUE]
Str(s) == [str |-> s]
Dict(items) == [dict |-> items]
List(seq) == [list |-> seq]

\* Python truthiness of such a value
PyTruthy(v) == v \notin {PyNone, Str(""), Dict({}), List(<<>>)}

\* `v or default`
Or(v, default) == IF PyTruthy(v) THEN v ELSE default

\* GmailBaseException.__init__(message, details=None)
GmailBaseException(class, msg, details) ==
    [class |-> class, message |-> msg, details |-> Or(details, Dict({}))]

\* the subclasses' __init__ applied to the first two positional arguments,
\* the remaining parameters at their defaults
GmailAuthenticationError(a, b) == GmailBaseException("GmailAuthenticationError", a, b)

GmailAuthorizationError(a, b) ==
    [scopes_required |-> Or(b, List(<<>>))]
        @@ GmailBaseException("GmailAuthorizationError", a, PyNone)

GmailRateLimitError(a, b) ==
    [retry_after |-> b] @@ GmailBaseException("GmailRateLimitError", a, PyNone)

GmailConnectionError(a, b) ==
    [status_code |-> b] @@ GmailBaseException("GmailConnectionError", a, PyNone)

GmailTimeoutError(a, b) ==
    [timeout_duration |-> b] @@ GmailBaseException("GmailTimeoutError", a, PyNone)

GmailDataError(a, b) ==
    [field_name |-> b] @@ GmailBaseException("GmailDataError", a, PyNone)

\* GmailMessageNotFoundError.__init__(message_id, message=..., details=None)
GmailMessageNotFoundError(a, b) ==
    [message_id |-> a] @@ GmailBaseException("GmailMessageNotFoundError", b, PyNone)

\* GOOGLE_API_ERROR_MAPPING.get(error_code, GmailBaseException)
ExceptionClass(code) ==
    CASE code = 400 -> "GmailDataError"
      [] code = 401 -> "GmailAuthenticationError"
      [] code = 403 -> "GmailAuthorizationError"
      [] code = 404 -> "GmailMessageNotFoundError"
      [] code = 429 -> "GmailRateLimitError"
      [] code \in {500, 503} -> "GmailConnectionError"
      [] code = 504 -> "GmailTimeoutError"
      [] OTHER -> "GmailBaseException"

\* exception_class(error_message, details)
Construct(class, a, b) ==
    CASE class = "GmailDataError" -> GmailDataError(a, b)
      [] class = "GmailAuthenticationError" -> GmailAuthenticationError(a, b)
      [] class = "GmailAuthorizationError" -> GmailAuthorizationError(a, b)
      [] class = "GmailMessageNotFoundError" -> GmailMessageNotFoundError(a, b)
      [] class = "GmailRateLimitError" -> GmailRateLimitError(a, b)
      [] class = "GmailConnectionError" -> GmailConnectionError(a, b)
      [] class = "GmailTimeoutError" -> GmailTimeoutError(a, b)
      [] OTHER -> GmailBaseException("GmailBaseException", a, b)

\* map_google_api_error(error_code, error_message, details=None)
MapGoogleApiError(code, error_message, details) ==
    Construct(ExceptionClass(code), Str(error_message), details)

ErrorCodes == {400, 401, 403, 404, 429, 500, 503, 504, 200, 418, 502}
ErrorMessages == {"", "Not Found", "Rate Limit Exceeded", "Backend Error"}
ErrorDetails == {PyNone, Dict({}), Dict({<<"reason", "rateLimitExceeded">>})}

\* a call map_google_api_error(code, message, details)
MapErrorCall(code, error_message, details) ==
    /\ construction' = Some([cls |-> "map_google_api_error",
                             args |-> [code |-> code, message |-> error_message,
                                       details |-> details],
                             outcome |-> Ret(MapGoogleApiError(code, error_message,
                                                               details))])
    /\ UNCHANGED <<queryVars, mapperVars, repoVars, server, auth, factory, caller>>

InitErrors == QueryIdle /\ MapperIdle /\ RepoIdle /\ SideIdle

NextErrors ==
    \E code \in ErrorCodes, msg \in ErrorMessages, details \in ErrorDetails :
        MapErrorCall(code, msg, details)

SpecErrors == InitErrors /\ [][NextErrors]_vars

-----------------------------------------------------------------------------
(* Properties of the repository operations *)

Last(seq) == seq[Len(seq)]
Op == IF IsNone(call) THEN "none" ELSE Val(call).op
RetriedOps == {"get_emails", "get_email_by_id", "search_emails", "mark_as_read",
               "mark_as_unread", "delete_email"}
Ended == pc = "done" /\ Op \in RetriedOps

\* C1: during a call of _fetch_messages_batch the number of single-message
\* fetches in progress at the same time never exceeds 10, whatever the
\* length of the message list.
C1_AtMostTenInProgress == Cardinality(InProgress) <= SemaphoreLimit

\* ten fetches are in progress while another message waits for a permit
C1_Witness ==
    /\ pc = "batch" /\ Op = "_fetch_messages_batch"
    /\ Cardinality(InProgress) = SemaphoreLimit
    /\ \E k \in 1..Len(tasks) : tasks[k].pc = "waiting"

\* C2 as stated: an attempt whose Gmail call fails with any HTTP error is
\* followed by another attempt, until one succeeds or three were made.
C2_RetryOnAnyHttpError ==
    (Ended /\ answers /= <<>>) =>
        (Last(answers) = 200 \/ Len(answers) = StopAfterAttempt)

\* C2, what the operations do instead: an attempt is followed by another
\* exactly when its Gmail call was answered 429 (raised as RateLimitError)
\* and fewer than three attempts were made; an attempt answered with any
\* other HTTP error ends the operation with that error; a successful attempt
\* ends it and its result is returned.
C2_RetryOnRateLimit ==
    Ended =>
        /\ attempt <= StopAfterAttempt
        /\ Len(answers) <= attempt /\ Len(answers) >= attempt - 1
        /\ \A i \in 1..(attempt - 1) : answers[i] = 429
        /\ (answers /= <<>> /\ Last(answers) = 429
               => Len(answers) = StopAfterAttempt /\ Val(outcome).kind = "raise")
        /\ (answers /= <<>> /\ Last(answers) \in {401, 404, 500}
               => Val(outcome).kind = "raise")
        /\ (answers /= <<>> /\ Last(answers) = 200 /\ Op /= "get_email_by_id"
               => Val(outcome).kind = "return")

\* an operation succeeded at its third attempt after two rate-limit answers
C2_Witness ==
    /\ Ended /\ Op = "mark_as_read"
    /\ answers = <<429, 429, 200>>
    /\ outcome = Some(Ret(TRUE))

\* C3 as stated: when every attempt of get_emails is answered 429, the call
\* raises RateLimitError to its caller.
C3_RateLimitErrorReachesCaller ==
    (pc = "done" /\ Op = "get_emails" /\ answers = <<429, 429, 429>>)
        => outcome = Some(Exc("RateLimitError"))

\* C4: an attempt of get_email_by_id for an id that is not cached and that
\* Gmail answers with 404 ends the call with EmailNotFoundError, without
\* another attempt, and leaves the cache as it was; when it is the first
\* attempt, exactly one Gmail request was made.
C4_NotFoundNotRetried ==
    [][ ( /\ Running("get_email_by_id")
          /\ ~CacheContains(cache, Val(call).id, now)
          /\ MessageStatus(Val(call).id) = 404
          /\ nApi' = nApi + 1 )
        => ( /\ pc' = "done"
             /\ outcome' = Some(Exc("EmailNotFoundError"))
             /\ cache' = cache
             /\ (attempt = 1 => nApi' = 1) ) ]_vars

\* get_email_by_id ended with EmailNotFoundError after one request
C4_Witness ==
    /\ pc = "done" /\ Op = "get_email_by_id"
    /\ answers = <<404>> /\ nApi = 1 /\ attempt = 1
    /\ outcome = Some(Exc("EmailNotFoundError"))

\* C5: the cache never holds more entries than its capacity, and an entry
\* that is served (by get_email_by_id or by the batch fetch) was stored at
\* most cache_ttl ago.
C5_CacheBounded ==
    /\ Len(cache) <= CacheMaxSize
    /\ ~IsNone(served) => Val(served).age <= settings.cache_ttl

\* the cache is full after the least recently used entry made room for a new
\* one, and an entry of it was served
C5_Witness ==
    /\ Len(cache) = CacheMaxSize
    /\ \E k \in 1..Len(cache) : cache[k].id = CacheMaxSize + 1
    /\ \A k \in 1..Len(cache) : cache[k].id /= 1
    /\ ~IsNone(served) /\ Val(served).id = CacheMaxSize

\* the entries of a cache, without their order of use
CacheContent(c) == {c[k] : k \in 1..Len(c)}

\* an attempt of get_email_by_id finds its id in the cache and ends
CacheHit ==
    /\ Running("get_email_by_id")
    /\ CacheContains(cache, Val(call).id, now)
    /\ pc' /= pc

\* the hit returns the cached record and makes no authentication and no Gmail
\* request
HitIsLocal ==
    /\ pc' = "done"
    /\ outcome' = Some(Ret(CacheEntry(cache, Val(call).id).rec))
    /\ nApi' = nApi /\ nAuth' = nAuth /\ service' = service
    /\ gmail' = gmail

\* the position of the entry of id in the cache c
PositionOf(c, id) == CHOOSE k \in 1..Len(c) : c[k].id = id

\* d holds the entries of c, the entry of id last (the most recently used)
\* and the other entries in the order they have in c
MovedToEnd(c, d, id) ==
    /\ Len(d) = Len(c)
    /\ CacheContent(d) = CacheContent(c)
    /\ d[Len(d)].id = id
    /\ \A i, j \in 1..Len(c) :
           (i < j /\ c[i].id /= id /\ c[j].id /= id)
               => PositionOf(d, c[i].id) < PositionOf(d, c[j].id)

\* C6 as stated: an attempt of get_email_by_id for an id that is cached and
\* not expired returns the cached record, makes no authentication and no
\* Gmail request, and leaves the cache unchanged.
C6_CacheHitLeavesCacheUnchanged ==
    [][ CacheHit => (HitIsLocal /\ cache' = cache) ]_vars

\* C6, amended: an attempt of get_email_by_id for an id that is cached and
\* not expired returns the cached record, makes no authentication and no
\* Gmail request, and keeps every entry of the cache as it was (key, record,
\* time stored, expiry); the cache changes in one way only: the entry read
\* becomes the most recently used, the other entries keeping their order.
C6_CacheHitIsLocal ==
    [][ CacheHit => (HitIsLocal /\ MovedToEnd(cache, cache', Val(call).id)) ]_vars

\* get_email_by_id returned a record from a cache of several entries, and the
\* entry it read is now the most recently used
C6_Witness ==
    /\ pc = "done" /\ Op = "get_email_by_id"
    /\ ~IsNone(served) /\ Val(served).id = Val(call).id
    /\ nApi = 0 /\ nAuth = 0
    /\ Val(outcome).kind = "return"
    /\ Len(cache) >= 2 /\ cache[Len(cache)].id = Val(call).id

\* a message whose fetch and mapping succeed while Gmail answers 200
Fetchable(id) == gmail.status = 200 /\ gmail.box[id] \in {"read", "unread"}

\* the records of the fetchable messages of a list, in list order
RECURSIVE KeptRecords(_)
KeptRecords(ids) ==
    IF ids = <<>> THEN <<>>
    ELSE (IF Fetchable(Head(ids)) THEN <<MappedRecord(Head(ids))>> ELSE <<>>)
             \o KeptRecords(Tail(ids))

\* the tasks whose fetch and mapping gave a record, and the i-th of them in
\* list order
KeptTasks == {k \in 1..Len(tasks) : ~IsNone(tasks[k].result)}
KeptTask(i) == CHOOSE k \in KeptTasks : Cardinality({j \in KeptTasks : j < k}) = i - 1

\* the value returned is made of the records of the kept tasks, in list order;
\* a kept record is the mapped record of a fetchable message; and when no
\* authentication was needed every fetchable message is kept
ReturnsKept(value) ==
    /\ Len(value) = Cardinality(KeptTasks)
    /\ \A i \in 1..Len(value) : value[i] = Val(tasks[KeptTask(i)].result)
    /\ \A k \in KeptTasks :
           Fetchable(tasks[k].id) /\ Val(tasks[k].result) = MappedRecord(tasks[k].id)
    /\ nAuth = 0 => value = KeptRecords(Val(call).messages)

\* C7: every call of _fetch_messages_batch ends, and it ends by returning
\* (never raising) exactly the records of the messages whose fetch and
\* mapping succeed, in the order of the message list.
C7_BatchTerminatesInOrder ==
    (pc = "batch" /\ Op = "_fetch_messages_batch")
        ~> ( /\ pc = "done"
             /\ Val(outcome).kind = "return"
             /\ ReturnsKept(Val(outcome).value) )

\* a batch of the longest list ended with some messages kept and some dropped
C7_Witness ==
    /\ pc = "done" /\ Op = "_fetch_messages_batch"
    /\ Len(Val(call).messages) = MaxBatch
    /\ Val(outcome).kind = "return"
    /\ Len(Val(outcome).value) > 1
    /\ Len(Val(outcome).value) < MaxBatch
    /\ \E k \in 1..Len(tasks) : IsNone(tasks[k].result)

RECURSIVE IdsOf(_)
IdsOf(recs) == IF recs = <<>> THEN <<>> ELSE <<Head(recs).id>> \o IdsOf(Tail(recs))

\* C9 as stated: when at least offset + limit messages match, offset + limit
\* <= max_results and every fetch succeeds, get_emails returns exactly the
\* limit emails at positions offset .. offset + limit - 1 of the matches.
C9_OffsetThenLimit ==
    ( /\ pc = "done" /\ Op = "get_emails"
      /\ Val(outcome).kind = "return"
      /\ Len(Val(request).matching) >= Val(call).offset + Val(call).limit
      /\ Val(call).offset + Val(call).limit <= settings.max_results
      /\ \A k \in 1..Len(tasks) : ~IsNone(tasks[k].result) )
    => IdsOf(Val(outcome).value)
           = SubSeq(Val(request).matching, Val(call).offset + 1,
                    Val(call).offset + Val(call).limit)

-----------------------------------------------------------------------------
(* Properties of the tool handlers *)

\* the arguments the handlers are meant to refuse
InvalidArguments(tool, args) ==
    CASE tool = "email_analyze" -> Get(args, "email_id", 0) = 0
      [] tool = "email_classify" ->
            \/ Get(args, "email_ids", <<>>) = <<>>
            \/ Len(Get(args, "email_ids", <<>>)) > MaxClassify
      [] tool = "email_action" ->
            \/ Get(args, "email_ids", <<>>) = <<>>
            \/ Get(args, "action", "none") \notin ValidActions
      [] tool = "email_search" -> Get(args, "limit", DefaultLimit) > MaxSearchLimit

\* C13: a tool call with invalid arguments is answered with an error whose
\* code is INVALID_PARAMS, and no repository operation is started for it
C13_InvalidParamsCode ==
    (server.tpc = "done" /\ InvalidArguments(server.tool, server.args))
        => /\ Val(server.response).kind = "error"
           /\ Val(server.response).code = "INVALID_PARAMS"
           /\ server.forwarded = <<>>

\* C13, what the handlers do: the refusal is an error raised by the check
\* itself and no repository operation is started, but the code the client
\* receives is the one of the handler's `except Exception` clause
C13_InvalidParamsRefused ==
    (server.tpc = "done" /\ InvalidArguments(server.tool, server.args))
        => /\ Val(server.response) = ToolError("INTERNAL_ERROR", "INVALID_PARAMS")
           /\ server.forwarded = <<>>
           /\ nApi = 0


\* an email_classify call has been answered
Classified == server.tpc = "done" /\ server.tool = "email_classify"

\* C14: an email_classify call with 1 to 50 ids and a batch_size >= 1 is
\* answered with one entry per id, in the order of the ids, and
\* total_processed is the number of ids; the entries are those of a single
\* batch of all the ids, whatever batch_size is, and an id that fails has an
\* entry with success = false in its own place
C14_OneEntryPerId ==
    LET ids == Get(server.args, "email_ids", <<>>)
        answer == Val(server.response)
    IN  (/\ Classified
         /\ Len(ids) \in 1..MaxClassify
         /\ Get(server.args, "batch_size", DefaultBatchSize) >= 1)
            => /\ answer.kind = "result"
               /\ answer.body.total_processed = Len(ids)
               /\ Len(answer.body.results) = Len(ids)
               /\ \A k \in 1..Len(ids) :
                     /\ answer.body.results[k].email_id = ids[k]
                     /\ answer.body.results[k] = ClassifyBatch(<<ids[k]>>)[1]
               /\ answer.body.results = ClassifyBatch(ids)

\* three ids in batches of two, as in test_email_classify: the second batch
\* is shorter than batch_size
C14_Witness ==
    /\ Classified
    /\ Len(server.args["email_ids"]) = 3
    /\ Get(server.args, "batch_size", DefaultBatchSize) = 2
    /\ Val(server.response).kind = "result"
    /\ Val(server.response).body.total_processed = 3
    /\ ~Val(server.response).body.results[3].success


\* an email_action call that passed the checks has been answered
Acted ==
    /\ server.tpc = "done" /\ server.tool = "email_action"
    /\ ~EmailActionInvalid(server.args)

\* the answer has one entry per id, in the order of the ids
C15_EntryPerId ==
    Acted =>
        LET ids == server.args["email_ids"]
            answer == Val(server.response)
        IN  /\ answer.kind = "result"
            /\ answer.body.total_emails = Len(ids)
            /\ Len(answer.body.results) = Len(ids)
            /\ \A k \in 1..Len(ids) :
                  /\ answer.body.results[k].email_id = ids[k]
                  /\ answer.body.results[k].action = server.args["action"]

\* each iteration of the loop appends the entry of its own id and leaves the
\* earlier entries alone; an iteration that raised appends success = false
\* with the error, and the loop goes on
C15_IterationStep ==
    (server.tpc \in {"loop", "waiting"} /\ server'.results # server.results)
        => LET n == Len(server.results)
               entry == server'.results[n + 1]
           IN  /\ Len(server'.results) = n + 1
               /\ SubSeq(server'.results, 1, n) = server.results
               /\ entry.email_id = server.args["email_ids"][n + 1]
               /\ server'.tpc = "loop"
               /\ (server.tpc = "waiting" /\ Val(outcome).kind = "raise")
                     => /\ ~entry.success
                        /\ "error" \in DOMAIN entry
                        /\ entry.error = Val(outcome).exc
               /\ (server.tpc = "waiting" /\ Val(outcome).kind = "return")
                     => "error" \notin DOMAIN entry

\* C15: an email_action call with a valid action is answered with one entry
\* per id, in the order of the ids; an error on one id is recorded as
\* success = false with the error in the entry of that id only, and the ids
\* after it are still processed
C15_ErrorsStayWithTheirId == [][C15_IterationStep]_vars /\ []C15_EntryPerId

\* the first id failed, the one after it was still marked as read
C15_Witness ==
    /\ Acted
    /\ server.args["action"] = "read"
    /\ Len(server.args["email_ids"]) = 2
    /\ ~Val(server.response).body.results[1].success
    /\ "error" \in DOMAIN Val(server.response).body.results[1]
    /\ Val(server.response).body.results[2].success
    /\ "error" \notin DOMAIN Val(server.response).body.results[2]


\* the errors with which a repository operation reports that Gmail did not
\* take the change
RepositoryErrors ==
    {"RetryError", "RateLimitError", "EmailServiceError", "EmailNotFoundError",
     "AuthenticationError"}

\* email_action with one of the four actions, label with label_ids
AcceptedAction ==
    /\ Acted
    /\ server.args["action"] = "label"
          => Get(Get(server.args, "action_params", EmptyDict), "label_ids", <<>>) # <<>>

\* every id was handed to a repository operation, and an entry without
\* success is one whose operation reported an error
ForwardedToRepository ==
    LET ids == server.args["email_ids"]
        results == Val(server.response).body.results
    IN  /\ Len(server.forwarded) = Len(ids)
        /\ \A k \in 1..Len(ids) :
              \/ results[k].success
              \/ /\ "error" \in DOMAIN results[k]
                 /\ results[k].error \in RepositoryErrors

\* C16: each of the four actions is forwarded to an operation of the
\* repository, and an id whose change Gmail accepts has success = true
C16_ActionsForwarded == AcceptedAction => ForwardedToRepository

\* C16, what the code does: read and delete are forwarded
C16_ReadDeleteForwarded ==
    (AcceptedAction /\ server.args["action"] \in {"read", "delete"})
        => ForwardedToRepository

\* C16, what the code does: archive and label never reach the repository
C16_ArchiveLabelNotForwarded ==
    (AcceptedAction /\ server.args["action"] \in {"archive", "label"})
        => /\ server.forwarded = <<>>
           /\ \A k \in 1..Len(server.args["email_ids"]) :
                 /\ ~Val(server.response).body.results[k].success
                 /\ Val(server.response).body.results[k].error = "AttributeError"


\* an email_search call within the limit has been answered
Searched ==
    /\ server.tpc = "done" /\ server.tool = "email_search"
    /\ Get(server.args, "limit", DefaultLimit) <= MaxSearchLimit

\* C17: an email_search call with limit <= 100 is forwarded to search_emails
\* and, Gmail answering, returns a result with at most limit entries and
\* total_results equal to the number of entries
C17_SearchReturnsResult ==
    (Searched /\ gmail.status = 200)
        => /\ Val(server.response).kind = "result"
           /\ server.forwarded = <<"search_emails">>
           /\ Len(Val(server.response).body.results)
                 <= Get(server.args, "limit", DefaultLimit)
           /\ Val(server.response).body.total_results
                 = Len(Val(server.response).body.results)

\* C17, what the code does: the call of search_emails raises before the
\* method runs, and every search within the limit ends in INTERNAL_ERROR
C17_SearchAlwaysFails ==
    Searched => /\ Val(server.response) = ToolError("INTERNAL_ERROR", "TypeError")
                /\ server.forwarded = <<>>


-----------------------------------------------------------------------------
(* Properties of the records *)

\* the values an AnalysisResult may hold
ValidAnalysisResult(r) ==
    /\ r.email_id # ""
    /\ r.sentiment \in Sentiments
    /\ r.priority \in Priorities
    /\ 0 <= r.confidence /\ r.confidence <= 10

\* the construction gave a record exactly for valid values
Validated(c) ==
    IF ValidAnalysisResult(c.args)
    THEN c.outcome = Ret(c.args)
    ELSE c.outcome.kind = "raise"

\* C18: an AnalysisResult, of core.models or of core.interfaces, exists only
\* with a non-empty email_id, a sentiment and a priority of the listed ones
\* and a confidence from 0 to 1; any other construction raises
C18_EveryResultValidated ==
    ~IsNone(construction) => Validated(Val(construction))

\* C18, what the code does: the class of core.models validates
C18_ModelsValidated ==
    (~IsNone(construction) /\ Val(construction).cls = "core.models")
        => Validated(Val(construction))

\* C18, what the code does: the class of core.interfaces takes any values
C18_InterfacesTakeAnything ==
    (~IsNone(construction) /\ Val(construction).cls = "core.interfaces")
        => Val(construction).outcome = Ret(Val(construction).args)


-----------------------------------------------------------------------------
(* Properties of the authenticator *)

\* authenticate has just returned credentials
AuthReturned == auth.last.result = "return"

\* the token file exists and holds the credentials that were returned
TokenFileHoldsReturned ==
    /\ ~IsNone(auth.file)
    /\ Val(auth.file) = ToJson(Val(auth.last.returned))

\* the token file held valid credentials when authenticate was called
StoredTokenValid ==
    /\ ~IsNone(auth.last.stored)
    /\ Valid(FromAuthorizedUserFile(Val(auth.last.stored)), auth.clock)

\* a valid stored token: no refresh, no flow, no write
ValidTokenUntouched ==
    StoredTokenValid => /\ auth.last.used = "none"
                        /\ ~auth.last.wrote
                        /\ auth.file = auth.last.stored

\* refresh only for expired credentials with a refresh token, the flow in
\* every other case in which the credentials were not valid
RefreshOnlyWhenExpired ==
    LET c == auth.last.loaded
        refreshable == ~IsNone(c) /\ Expired(Val(c), auth.clock) /\ Val(c).refresh_token
    IN  /\ auth.last.used = "refresh" => refreshable
        /\ auth.last.used = "flow" => ~refreshable
        /\ (IsNone(c) \/ ~Valid(Val(c), auth.clock)) => auth.last.used # "none"

\* C19: after a successful authenticate() the token file exists and holds
\* the returned credentials; a valid stored token causes no refresh, no flow
\* and no write; a refresh happens only for expired credentials with a
\* refresh token, the flow otherwise
C19_TokenFileAfterAuthenticate ==
    AuthReturned => /\ TokenFileHoldsReturned
                    /\ ValidTokenUntouched
                    /\ RefreshOnlyWhenExpired

\* C19, what the code does: the token file holds the returned credentials
\* whenever the call read them from the file or wrote them
C19_TokenFileWhenReadOrWritten ==
    (AuthReturned /\ (~IsNone(auth.last.stored) \/ auth.last.wrote))
        => TokenFileHoldsReturned

\* C19, what the code does: the choice between stored token, refresh and flow
C19_RefreshOrFlow ==
    AuthReturned => ValidTokenUntouched /\ RefreshOnlyWhenExpired

\* C19, what the code does: credentials kept in memory from a call whose
\* write failed are returned without a token file
C19_ReturnedWithoutTokenFile ==
    (AuthReturned /\ ~TokenFileHoldsReturned)
        => /\ IsNone(auth.file)
           /\ auth.last.used = "none"
           /\ auth.last.returned = auth.last.loaded


-----------------------------------------------------------------------------
(* Properties of the factory *)

\* the k-th call was a create that returned a repository
GoodCreate(log, k) ==
    log[k].op = "create" /\ log[k].result.kind = "return"

\* the successful creates before call k and after the last reset before it
CreatesInForce(log, k) ==
    {j \in 1..(k - 1) :
        /\ GoodCreate(log, j)
        /\ \A r \in (j + 1)..(k - 1) : log[r].op # "reset"}

\* the greatest element of a non-empty set of numbers
Greatest(S) == CHOOSE x \in S : \A y \in S : y <= x

\* the repository returned by call k was returned by no earlier call
FreshAt(log, k) ==
    \A j \in 1..(k - 1) :
        GoodCreate(log, j) => log[j].result.value # log[k].result.value

\* create at call k: fresh exactly when no repository is in force or the
\* settings differ from those of the last successful create, and otherwise
\* the repository of that create
CreateAsExpected(log, k) ==
    LET prior == CreatesInForce(log, k)
        last == log[Greatest(prior)]
    IN  IF prior = {} \/ last.settings # log[k].settings
        THEN FreshAt(log, k) /\ log[k].result.value.settings = log[k].settings
        ELSE log[k].result.value = last.result.value

\* get_instance at call k: the repository of the last successful create
\* since the last reset, None without one
GetInstanceAsExpected(log, k) ==
    LET prior == CreatesInForce(log, k)
    IN  IF prior = {} THEN log[k].result.value = None
        ELSE log[k].result.value = Some(log[Greatest(prior)].result.value)

\* C20: create returns the same repository for consecutive calls with equal
\* settings and a fresh one exactly when there is none (at the start or
\* after reset) or the settings differ from those of the last successful
\* create; get_instance returns the repository of the last successful create
\* since the last reset, or None
C20_FactoryKeepsLastInstance ==
    \A k \in 1..Len(factory.log) :
        /\ GoodCreate(factory.log, k) => CreateAsExpected(factory.log, k)
        /\ factory.log[k].op = "get_instance" => GetInstanceAsExpected(factory.log, k)

\* create, create with other settings, a refused create, get_instance: the
\* second repository is a new one and it is the one get_instance returns
C20_Witness ==
    /\ Len(factory.log) = 4
    /\ GoodCreate(factory.log, 1) /\ GoodCreate(factory.log, 2)
    /\ factory.log[1].settings # factory.log[2].settings
    /\ factory.log[3].op = "create" /\ factory.log[3].result.kind = "raise"
    /\ factory.log[4].op = "get_instance"
    /\ factory.log[4].result.value = Some(factory.log[2].result.value)
    /\ factory.log[2].result.value.object = 2


-----------------------------------------------------------------------------
(* Properties of the operations on several emails *)

\* the ids of a list whose single operation returned True, in list order
RECURSIVE Succeeded(_, _)
Succeeded(ids, ended) ==
    IF ids = <<>> \/ ended = <<>> THEN <<>>
    ELSE (IF Head(ended) = Ret(TRUE) THEN <<Head(ids)>> ELSE <<>>)
             \o Succeeded(Tail(ids), Tail(ended))

\* the operation returns, never raises, after every id had its single
\* operation, with the ids that succeeded
MultiReturnsSucceeded ==
    caller.mpc = "done"
        => /\ Val(caller.result).kind = "return"
           /\ Len(caller.ended) = Len(caller.ids)
           /\ Val(caller.result).value = Succeeded(caller.ids, caller.ended)

\* C21: mark_multiple_as_read, mark_multiple_as_unread and
\* delete_multiple_emails always end, without raising, and return the ids
\* whose single operation returned True, in the order given; a failure on
\* one id, retries used up included, does not keep later ids from being
\* processed
C21_MultiReturnsSucceeded ==
    /\ []MultiReturnsSucceeded
    /\ (caller.mpc \in {"loop", "waiting"}) ~> (caller.mpc = "done")

\* the first id used up its retries, the second was processed and returned
C21_Witness ==
    /\ caller.mpc = "done"
    /\ Len(caller.ids) = 2
    /\ caller.ended[1] = Exc("RetryError")
    /\ caller.ended[2] = Ret(TRUE)
    /\ Val(caller.result).value = <<caller.ids[2]>>


-----------------------------------------------------------------------------
(* Properties of the retry setting *)

\* the operation has ended and Gmail answered every attempt with 429
RateLimitedThroughout ==
    /\ Ended
    /\ answers # <<>>
    /\ \A k \in 1..Len(answers) : answers[k] = 429

\* C22: an operation that Gmail keeps answering with a rate-limit error
\* makes as many attempts as settings.retry_attempts says, for each value
\* from 1 to 10
C22_AttemptsAsConfigured ==
    RateLimitedThroughout => Len(answers) = settings.retry_attempts

\* C22, what the code does: the number of attempts is the one written in the
\* decorator, whatever the setting
C22_AttemptsAsDecorated ==
    RateLimitedThroughout
        => /\ Len(answers) = StopAfterAttempt
           /\ attempt = StopAfterAttempt
           /\ outcome = Some(Exc("RetryError"))


-----------------------------------------------------------------------------
(* Properties of marking and reading *)

\* call k of the log was a mark operation on id that returned True
MarkedAt(log, k, id) ==
    /\ log[k].call.op \in {"mark_as_read", "mark_as_unread"}
    /\ log[k].call.id = id
    /\ log[k].outcome = Ret(TRUE)

\* call j is the first call on id after call k, and it is a get_email_by_id
\* that returned a record
NextGetAt(log, k, j, id) ==
    /\ k < j
    /\ log[j].call.op = "get_email_by_id" /\ log[j].call.id = id
    /\ log[j].outcome.kind = "return"
    /\ \A m \in (k + 1)..(j - 1) : log[m].call.id # id

\* C23: the first get_email_by_id(id) after a successful mark_as_read(id)
\* returns is_read = true, and after a successful mark_as_unread(id)
\* is_read = false, whether or not the email was cached when it was marked
C23_MarkThenGet ==
    \A k, j \in 1..Len(caller.log) :
        \A id \in 1..NumIds :
            (MarkedAt(caller.log, k, id) /\ NextGetAt(caller.log, k, j, id))
                => caller.log[j].outcome.value.is_read
                      = (caller.log[k].call.op = "mark_as_read")

\* an unread email is fetched and cached, then marked as read, and the next
\* get_email_by_id is served from the cache with is_read = true
C23_Witness ==
    /\ Len(caller.log) = 3
    /\ caller.log[1].call = [op |-> "get_email_by_id", id |-> 1]
    /\ caller.log[1].outcome.kind = "return"
    /\ MarkedAt(caller.log, 2, 1) /\ caller.log[2].call.op = "mark_as_read"
    /\ NextGetAt(caller.log, 2, 3, 1)
    /\ ~IsNone(caller.log[3].served)
    /\ caller.log[3].outcome.value.is_read


-----------------------------------------------------------------------------
(* Properties of the exceptions *)

\* map_google_api_error has been called
Mapped == ~IsNone(construction) /\ Val(construction).cls = "map_google_api_error"

\* the exception carries the message and the details it was given
CarriesMessageAndDetails(c) ==
    /\ c.outcome.value.class = ExceptionClass(c.args.code)
    /\ c.outcome.value.message = Str(c.args.message)
    /\ c.outcome.value.details
          = (IF c.args.details = PyNone THEN Dict({}) ELSE c.args.details)

\* C24: map_google_api_error(code, message, details) returns an exception
\* of the class the mapping gives the code, GmailBaseException for a code
\* not in it, with message the given message and details the given details,
\* an empty dict when none is given
C24_MappedErrorKeepsArguments ==
    Mapped => CarriesMessageAndDetails(Val(construction))

\* C24, what the code does: the class is always the mapped one, and the
\* arguments arrive for 401 and for the codes that are not in the mapping
C24_ArgumentsKeptForBaseSignature ==
    Mapped
        => /\ Val(construction).outcome.value.class
                 = ExceptionClass(Val(construction).args.code)
           /\ ExceptionClass(Val(construction).args.code)
                 \in {"GmailBaseException", "GmailAuthenticationError"}
                     => CarriesMessageAndDetails(Val(construction))

\* C24, what the code does: for 404 the given message becomes message_id
\* and the details become the message
C24_NotFoundShiftsArguments ==
    (Mapped /\ Val(construction).args.code = 404)
        => /\ Val(construction).outcome.value.message_id
                 = Str(Val(construction).args.message)
           /\ Val(construction).outcome.value.message = Val(construction).args.details
           /\ Val(construction).outcome.value.details = Dict({})


====
